---- MODULE Spec2Model ----
(***************************************************************************)
(* LiteTable.js: the core table engine (filter -> sort -> paginate), the   *)
(* VirtualScrollManager and the ServerSideManager, as state machines.      *)
(***************************************************************************)
EXTENDS Integers, Sequences, FiniteSets, TLC

(***************************************************************************)
(* Bounds of the model                                                     *)
(***************************************************************************)
\* longest data array handed to the table (constructor, setData)
MaxRows == 3
\* largest page size handed to setPageSize
MaxPageSize == 2
\* largest page number handed to goToPage (the smallest is -1)
MaxPageArg == 4
\* listeners subscribed to a table at one time, over all event types
MaxSubscriptions == 2

(***************************************************************************)
(* Values: a cell holds null, a number or a string (a sequence of          *)
(* one-character strings).                                                 *)
(***************************************************************************)
NULL == "null"

NullV == [t |-> "null", n |-> 0, s |-> <<>>]

Num(k) == [t |-> "number", n |-> k, s |-> <<>>]

Str(chars) == [t |-> "string", n |-> 0, s |-> chars]

\* String.prototype.toLowerCase, one character
LowerChar(c) ==
  CASE c = "A" -> "a"
    [] c = "B" -> "b"
    [] OTHER -> c

ToLowerCase(s) == [i \in 1..Len(s) |-> LowerChar(s[i])]

\* decimal digits of a natural number, as characters
DigitChar(d) ==
  CASE d = 0 -> "0" [] d = 1 -> "1" [] d = 2 -> "2" [] d = 3 -> "3"
    [] d = 4 -> "4" [] d = 5 -> "5" [] d = 6 -> "6" [] d = 7 -> "7"
    [] d = 8 -> "8" [] OTHER -> "9"

RECURSIVE NatToString(_)
NatToString(k) ==
  IF k < 10 THEN <<DigitChar(k)>>
  ELSE NatToString(k \div 10) \o <<DigitChar(k % 10)>>

\* String(value) of a non-null cell value
StringOf(v) ==
  IF v.t = "number"
  THEN (IF v.n < 0 THEN <<"-">> \o NatToString(0 - v.n) ELSE NatToString(v.n))
  ELSE v.s

\* String.prototype.includes
Includes(s, sub) ==
  \E i \in 0..(Len(s) - Len(sub)) : SubSeq(s, i + 1, i + Len(sub)) = sub

\* collation rank of a (lower-case) character
CharRank(c) ==
  CASE c = "-" -> 0
    [] c = "0" -> 1 [] c = "1" -> 2 [] c = "2" -> 3 [] c = "3" -> 4
    [] c = "4" -> 5 [] c = "5" -> 6 [] c = "6" -> 7 [] c = "7" -> 8
    [] c = "8" -> 9 [] c = "9" -> 10
    [] c = "a" -> 11 [] c = "A" -> 12
    [] c = "b" -> 13 [] c = "B" -> 14
    [] OTHER -> 15

\* String.prototype.localeCompare: -1, 0 or 1
RECURSIVE LocaleCompare(_, _)
LocaleCompare(s, u) ==
  IF s = <<>> /\ u = <<>> THEN 0
  ELSE IF s = <<>> THEN -1
  ELSE IF u = <<>> THEN 1
  ELSE IF CharRank(Head(s)) < CharRank(Head(u)) THEN -1
  ELSE IF CharRank(Head(s)) > CharRank(Head(u)) THEN 1
  ELSE LocaleCompare(Tail(s), Tail(u))

(***************************************************************************)
(* Columns and rows                                                        *)
(***************************************************************************)
\* the columns array of the table: no accessor, no sortFn
Columns ==
  << [id |-> "name", sortable |-> TRUE,  filterable |-> TRUE,  hidden |-> FALSE],
     [id |-> "age",  sortable |-> TRUE,  filterable |-> TRUE,  hidden |-> TRUE],
     [id |-> "id",   sortable |-> FALSE, filterable |-> FALSE, hidden |-> FALSE] >>

ColumnIds == {Columns[i].id : i \in 1..Len(Columns)}

\* ids handed to sortBy: the three columns and an unknown id
SortArgs == {"name", "age", "id", "zzz"}

\* ids handed to toggleColumn, showColumn, hideColumn: a column and an unknown id
ToggleArgs == {"age", "zzz"}

Row1 == [id |-> Num(1), name |-> Str(<<"b">>),      age |-> Num(2)]
Row2 == [id |-> Num(2), name |-> Str(<<"A", "B">>), age |-> NullV]
Row3 == [id |-> Num(1), name |-> NullV,             age |-> Num(2)]

RowUniverse == {Row1, Row2, Row3}

\* the arrays of at most k rows, no row twice
DataUpTo(k) ==
  UNION { {d \in [1..n -> RowUniverse] : \A i, j \in 1..n : d[i] = d[j] => i = j} :
          n \in 0..k }

DataSets == DataUpTo(MaxRows)

SearchTerms == {<<>>, <<"B">>, <<"2">>}

SortDirections == {"asc", "desc"}

(***************************************************************************)
(* utils                                                                   *)
(***************************************************************************)
\* column.accessor is absent: the value under column.id, null when undefined
getCellValue(row, column) ==
  IF column.id \in DOMAIN row THEN row[column.id] ELSE NullV

\* compareValues whose nulls follow the direction like any other value
compareValues_NullsFollowDirection(a, b, direction) ==
  IF a.t = "null" /\ b.t = "null" THEN 0
  ELSE IF a.t = "null" THEN (IF direction = "asc" THEN 1 ELSE -1)
  ELSE IF b.t = "null" THEN (IF direction = "asc" THEN -1 ELSE 1)
  ELSE IF a.t = "string" /\ b.t = "string"
    THEN LET result == LocaleCompare(ToLowerCase(a.s), ToLowerCase(b.s))
         IN IF direction = "asc" THEN result ELSE 0 - result
  ELSE IF a.t = "number" /\ b.t = "number"
    THEN IF direction = "asc" THEN a.n - b.n ELSE b.n - a.n
  ELSE LET result == LocaleCompare(ToLowerCase(StringOf(a)), ToLowerCase(StringOf(b)))
       IN IF direction = "asc" THEN result ELSE 0 - result

compareValues(a, b, direction) ==
  IF a.t = "null" /\ b.t = "null" THEN 0
  ELSE IF a.t = "null" THEN 1
  ELSE IF b.t = "null" THEN -1
  ELSE IF a.t = "string" /\ b.t = "string"
    THEN LET result == LocaleCompare(ToLowerCase(a.s), ToLowerCase(b.s))
         IN IF direction = "asc" THEN result ELSE 0 - result
  ELSE IF a.t = "number" /\ b.t = "number"
    THEN IF direction = "asc" THEN a.n - b.n ELSE b.n - a.n
  ELSE LET result == LocaleCompare(ToLowerCase(StringOf(a)), ToLowerCase(StringOf(b)))
       IN IF direction = "asc" THEN result ELSE 0 - result

RECURSIVE AnyColumnMatches(_, _, _)
AnyColumnMatches(row, lowerSearch, k) ==
  IF k > Len(Columns) THEN FALSE
  ELSE LET column == Columns[k]
           value == getCellValue(row, column)
       IN IF column.filterable = FALSE THEN AnyColumnMatches(row, lowerSearch, k + 1)
          ELSE IF value.t = "null" THEN AnyColumnMatches(row, lowerSearch, k + 1)
          ELSE IF Includes(ToLowerCase(StringOf(value)), lowerSearch) THEN TRUE
          ELSE AnyColumnMatches(row, lowerSearch, k + 1)

defaultFilterFn(row, term) ==
  IF term = <<>> THEN TRUE
  ELSE AnyColumnMatches(row, ToLowerCase(term), 1)

Max(a, b) == IF a >= b THEN a ELSE b

Min(a, b) == IF a <= b THEN a ELSE b

\* Math.ceil(a / b) for b > 0
CeilDiv(a, b) == (a + b - 1) \div b

\* the Number values that are not integers: n / 0 for n > 0, and 0 / 0
Infinity == 2147483647

NaN == 0 - 2147483647

\* Math.max and Math.min: NaN if an argument is NaN
MathMax(a, b) == IF a = NaN \/ b = NaN THEN NaN ELSE Max(a, b)

MathMin(a, b) == IF a = NaN \/ b = NaN THEN NaN ELSE Min(a, b)

\* Math.ceil(totalRows / pageSize) for a length totalRows and an integer pageSize
CeilOfQuotient(totalRows, pageSize) ==
  IF pageSize > 0 THEN CeilDiv(totalRows, pageSize)
  ELSE IF pageSize = 0 THEN (IF totalRows = 0 THEN NaN ELSE Infinity)
  ELSE 0 - (totalRows \div (0 - pageSize))

DefaultPageSizeOptions == <<10, 25, 50, 100>>

\* createPaginationState that takes the page as given, without clamping it
createPaginationState_NoClamp(page, pageSize, totalRows, pageSizeOptions) ==
  LET totalPages == Max(1, CeilDiv(totalRows, pageSize))
      startIndex == (page - 1) * pageSize
      endIndex == Min(startIndex + pageSize, totalRows)
  IN [page |-> page,
      pageSize |-> pageSize,
      pageSizeOptions |-> pageSizeOptions,
      totalRows |-> totalRows,
      totalPages |-> totalPages,
      startIndex |-> startIndex,
      endIndex |-> endIndex,
      hasPrevPage |-> page > 1,
      hasNextPage |-> page < totalPages]

createPaginationState(page, pageSize, totalRows, pageSizeOptions) ==
  LET totalPages == MathMax(1, CeilOfQuotient(totalRows, pageSize))
      safePage == MathMin(MathMax(1, page), totalPages)
      startIndex == IF safePage = NaN THEN NaN ELSE (safePage - 1) * pageSize
      endIndex == IF startIndex = NaN THEN NaN
                  ELSE Min(startIndex + pageSize, totalRows)
  IN [page |-> safePage,
      pageSize |-> pageSize,
      pageSizeOptions |-> pageSizeOptions,
      totalRows |-> totalRows,
      totalPages |-> totalPages,
      startIndex |-> startIndex,
      endIndex |-> endIndex,
      hasPrevPage |-> safePage # NaN /\ safePage > 1,
      hasNextPage |-> safePage # NaN /\ totalPages # NaN /\ safePage < totalPages]

\* paginationState: null
NoPagination ==
  [page |-> 0, pageSize |-> 0, pageSizeOptions |-> <<>>, totalRows |-> 0,
   totalPages |-> 0, startIndex |-> 0, endIndex |-> 0,
   hasPrevPage |-> FALSE, hasNextPage |-> FALSE]

\* the index Array.prototype.slice makes of an argument: NaN counts as 0, a
\* negative argument counts from the end, and the result lies within 0..len
RelativeIndex(i, len) ==
  IF i = NaN THEN 0
  ELSE IF i < 0 THEN Max(len + i, 0)
  ELSE Min(i, len)

\* Array.prototype.slice(start, end)
Slice(arr, start, end) ==
  LET k == RelativeIndex(start, Len(arr))
      final == RelativeIndex(end, Len(arr))
  IN IF k >= final THEN <<>> ELSE SubSeq(arr, k + 1, final)

(***************************************************************************)
(* LiteTable                                                               *)
(***************************************************************************)
VARIABLES
  options,          \* LiteTable.options: data, searchable, defaultSort, pagination
  originalData,     \* LiteTable.state.originalData
  filteredData,     \* LiteTable.state.filteredData
  sortedData,       \* LiteTable.state.sortedData
  paginatedData,    \* LiteTable.state.paginatedData
  sortState,        \* LiteTable.state.sortState
  searchTerm,       \* LiteTable.state.searchTerm
  paginationState,  \* LiteTable.state.paginationState (NoPagination: null)
  hiddenColumns,    \* LiteTable.state.hiddenColumns: the contents of the Set object
  listeners,        \* LiteTable.listeners: per event type, the Set in insertion order
  emitQueue,        \* the listener calls the emit() calls on the stack have yet to make
  held,             \* the snapshot a caller of getState() holds
  observed          \* the last call made from outside and the listener calls it led to

tableVars ==
  <<options, originalData, filteredData, sortedData, paginatedData,
    sortState, searchTerm, paginationState, hiddenColumns>>

eventVars == <<listeners, emitQueue, held, observed>>

NoSort == [columnId |-> NULL, direction |-> NULL]

\* TableEventType
EventTypes == {"sort", "search", "paginate", "columnToggle", "reset"}

\* new Map(): no listener under any event type
NoListeners == [e \in EventTypes |-> <<>>]

\* Object.freeze({ ...this.state }): the fields of the state, copied
SnapshotNow ==
  [originalData |-> originalData, filteredData |-> filteredData,
   sortedData |-> sortedData, paginatedData |-> paginatedData,
   sortState |-> sortState, searchTerm |-> searchTerm,
   paginationState |-> paginationState, hiddenColumns |-> hiddenColumns]

\* nobody has called getState() yet
NoSnapshot ==
  [taken |-> FALSE,
   asTaken |-> [originalData |-> <<>>, filteredData |-> <<>>, sortedData |-> <<>>,
                paginatedData |-> <<>>, sortState |-> NoSort, searchTerm |-> <<>>,
                paginationState |-> NoPagination, hiddenColumns |-> {}],
   sharesHidden |-> FALSE, detachedHidden |-> {}]

\* no call has been made from outside yet
NotObserved ==
  [call |-> [op |-> "none", column |-> "", direction |-> NULL, page |-> 0],
   invoked |-> <<>>]

\* the calls left to the emit() calls on the stack once the running listener,
\* if there is one, has returned
Pending == IF emitQueue = <<>> THEN <<>> ELSE Tail(emitQueue)

\* listeners.forEach(listener => listener(this.getState())) of one event type
ListenerCalls(type) ==
  [i \in 1..Len(listeners[type]) |-> [fn |-> listeners[type][i], event |-> type]]

emit(eventType) == emitQueue' = ListenerCalls(eventType) \o Pending

\* a method that returns without a call of emit
NoEmit == emitQueue' = Pending

\* the TableOptions handed to the constructor
TableConfigs ==
  { [data |-> d, searchable |-> s, defaultSort |-> ds, pagination |-> pg] :
      d \in {<<>>, <<Row1, Row2>>, <<Row3, Row1>>},
      s \in {TRUE},
      ds \in {NoSort},
      pg \in {[enabled |-> TRUE, page |-> 1, pageSize |-> 1]} }
  \cup
  { [data |-> <<Row1, Row3>>, searchable |-> FALSE,
     defaultSort |-> [columnId |-> "age", direction |-> "desc"],
     pagination |-> [enabled |-> FALSE, page |-> 1, pageSize |-> 10]],
    [data |-> <<Row2, Row1>>, searchable |-> TRUE,
     defaultSort |-> [columnId |-> "id", direction |-> "asc"],
     pagination |-> [enabled |-> TRUE, page |-> 3, pageSize |-> 2]] }

initPagination(config) ==
  IF ~config.pagination.enabled THEN NoPagination
  ELSE createPaginationState(config.pagination.page, config.pagination.pageSize,
                             Len(config.data), DefaultPageSizeOptions)

filterData(data, term) ==
  IF ~options.searchable \/ term = <<>> THEN data
  ELSE SelectSeq(data, LAMBDA row : defaultFilterFn(row, term))

\* the column of that id, as Array.prototype.find over options.columns
FindColumn(columnId) ==
  LET hits == {i \in 1..Len(Columns) : Columns[i].id = columnId}
  IN IF hits = {} THEN <<>>
     ELSE <<Columns[CHOOSE i \in hits : \A j \in hits : i <= j]>>

\* x placed into an array ordered by the comparator, after the elements that
\* compare equal to it (Array.prototype.sort is stable)
RECURSIVE InsertOrdered(_, _, _, _)
InsertOrdered(sorted, x, column, direction) ==
  IF sorted = <<>> THEN <<x>>
  ELSE IF compareValues(getCellValue(Head(sorted), column),
                        getCellValue(x, column), direction) > 0
       THEN <<x>> \o sorted
       ELSE <<Head(sorted)>> \o InsertOrdered(Tail(sorted), x, column, direction)

RECURSIVE SortCopy(_, _, _)
SortCopy(data, column, direction) ==
  IF data = <<>> THEN <<>>
  ELSE InsertOrdered(SortCopy(SubSeq(data, 1, Len(data) - 1), column, direction),
                     data[Len(data)], column, direction)

sortData(data, sort) ==
  IF sort.columnId = NULL \/ sort.direction = NULL THEN data
  ELSE LET found == FindColumn(sort.columnId)
       IN IF found = <<>> THEN data
          ELSE IF found[1].sortable = FALSE THEN data
          ELSE SortCopy(data, found[1], sort.direction)

paginateData(data, pagination) ==
  IF pagination = NoPagination THEN data
  ELSE Slice(data, pagination.startIndex, pagination.endIndex)

\* the pipeline, run on the state the caller has just written
processData(orig, term, sort, pagination) ==
  LET filtered == filterData(orig, term)
      sorted == sortData(filtered, sort)
      newPagination ==
        IF pagination # NoPagination
        THEN createPaginationState(pagination.page, pagination.pageSize,
                                   Len(sorted), pagination.pageSizeOptions)
        ELSE pagination
  IN /\ filteredData' = filtered
     /\ sortedData' = sorted
     /\ paginationState' = newPagination
     /\ paginatedData' = paginateData(sorted, newPagination)

createInitialHidden ==
  {Columns[i].id : i \in {j \in 1..Len(Columns) : Columns[j].hidden}}

\* new LiteTable(config), for the options of one of the configs
TableInitFrom(configs) ==
  /\ options \in { [data |-> c.data, searchable |-> c.searchable,
                    defaultSort |-> c.defaultSort,
                    pagination |-> initPagination(c)] : c \in configs }
  /\ originalData = options.data
  /\ sortState = options.defaultSort
  /\ searchTerm = <<>>
  /\ hiddenColumns = createInitialHidden
  /\ filteredData = filterData(originalData, searchTerm)
  /\ sortedData = sortData(filteredData, sortState)
  /\ paginationState =
       IF options.pagination # NoPagination
       THEN createPaginationState(options.pagination.page, options.pagination.pageSize,
                                  Len(sortedData), options.pagination.pageSizeOptions)
       ELSE options.pagination
  /\ paginatedData = paginateData(sortedData, paginationState)
  /\ listeners = NoListeners
  /\ emitQueue = <<>>
  /\ held = NoSnapshot
  /\ observed = NotObserved

TableInit == TableInitFrom(TableConfigs)

\* sortBy whose sortData sorts the array it is handed, not a copy: the filtered
\* array, which is the originalData array itself when nothing is filtered out
sortBy_InPlace(columnId, direction) ==
  LET found == FindColumn(columnId)
  IN IF found = <<>> \/ (found # <<>> /\ found[1].sortable = FALSE)
     THEN UNCHANGED <<tableVars, listeners, held>> /\ NoEmit
     ELSE LET newDirection ==
                IF direction # NULL THEN direction
                ELSE IF sortState.columnId = columnId
                     THEN (IF sortState.direction = "asc" THEN "desc" ELSE "asc")
                     ELSE "asc"
              sorted == SortCopy(filterData(originalData, searchTerm), found[1],
                                 newDirection)
              newPagination ==
                IF paginationState # NoPagination
                THEN createPaginationState(paginationState.page,
                                           paginationState.pageSize, Len(sorted),
                                           paginationState.pageSizeOptions)
                ELSE paginationState
          IN /\ sortState' = [columnId |-> columnId, direction |-> newDirection]
             /\ filteredData' = sorted
             /\ sortedData' = sorted
             /\ originalData' = IF ~options.searchable \/ searchTerm = <<>>
                                THEN sorted ELSE originalData
             /\ paginationState' = newPagination
             /\ paginatedData' = paginateData(sorted, newPagination)
             /\ emit("sort")
             /\ UNCHANGED <<options, searchTerm, hiddenColumns, listeners, held>>

\* sortBy whose third call without a direction clears the sort
sortBy_ThreeState(columnId, direction) ==
  LET found == FindColumn(columnId)
  IN IF found = <<>> \/ (found # <<>> /\ found[1].sortable = FALSE)
     THEN UNCHANGED <<tableVars, listeners, held>> /\ NoEmit
     ELSE LET newSort ==
                IF direction # NULL
                THEN [columnId |-> columnId, direction |-> direction]
                ELSE IF sortState.columnId = columnId
                     THEN (IF sortState.direction = "asc"
                           THEN [columnId |-> columnId, direction |-> "desc"]
                           ELSE NoSort)
                     ELSE [columnId |-> columnId, direction |-> "asc"]
          IN /\ sortState' = newSort
             /\ processData(originalData, searchTerm, sortState', paginationState)
             /\ emit("sort")
             /\ UNCHANGED <<options, originalData, searchTerm, hiddenColumns,
                            listeners, held>>

\* sortBy(columnId, direction); direction NULL: omitted
sortBy(columnId, direction) ==
  LET found == FindColumn(columnId)
  IN IF found = <<>> \/ (found # <<>> /\ found[1].sortable = FALSE)
     THEN UNCHANGED <<tableVars, listeners, held>> /\ NoEmit
     ELSE LET newDirection ==
                IF direction # NULL THEN direction
                ELSE IF sortState.columnId = columnId
                     THEN (IF sortState.direction = "asc" THEN "desc" ELSE "asc")
                     ELSE "asc"
          IN /\ sortState' = [columnId |-> columnId, direction |-> newDirection]
             /\ processData(originalData, searchTerm, sortState', paginationState)
             /\ emit("sort")
             /\ UNCHANGED <<options, originalData, searchTerm, hiddenColumns,
                            listeners, held>>

clearSort ==
  /\ sortState' = NoSort
  /\ processData(originalData, searchTerm, sortState', paginationState)
  /\ emit("sort")
  /\ UNCHANGED <<options, originalData, searchTerm, hiddenColumns, listeners, held>>

\* search that emits without having run the pipeline on the new term
search_NoPipeline(term) ==
  /\ searchTerm' = term
  /\ emit("search")
  /\ UNCHANGED <<options, originalData, filteredData, sortedData, paginatedData,
                 sortState, paginationState, hiddenColumns, listeners, held>>

\* search that filters again and stays on the page it was on
search_KeepsPage(term) ==
  /\ searchTerm' = term
  /\ processData(originalData, term, sortState, paginationState)
  /\ emit("search")
  /\ UNCHANGED <<options, originalData, sortState, hiddenColumns, listeners, held>>

search(term) ==
  /\ searchTerm' = term
  /\ processData(originalData, term, sortState,
                 IF paginationState # NoPagination
                 THEN [paginationState EXCEPT !.page = 1]
                 ELSE paginationState)
  /\ emit("search")
  /\ UNCHANGED <<options, originalData, sortState, hiddenColumns, listeners, held>>

\* the body of goToPage, shared with nextPage and prevPage
GoToPageBody(page) ==
  IF paginationState = NoPagination
  THEN UNCHANGED <<tableVars, listeners, held>> /\ NoEmit
  ELSE LET safePage == MathMin(MathMax(1, page), paginationState.totalPages)
           moved == createPaginationState(safePage, paginationState.pageSize,
                                          Len(sortedData),
                                          paginationState.pageSizeOptions)
       IN /\ processData(originalData, searchTerm, sortState, moved)
          /\ emit("paginate")
          /\ UNCHANGED <<options, originalData, sortState, searchTerm, hiddenColumns,
                         listeners, held>>

\* goToPage that moves the page and leaves the rows of the page it came from
goToPage_StaleRows(page) ==
  IF paginationState = NoPagination
  THEN UNCHANGED <<tableVars, listeners, held>> /\ NoEmit
  ELSE LET safePage == Min(Max(1, page), paginationState.totalPages)
       IN /\ paginationState' =
               createPaginationState(safePage, paginationState.pageSize,
                                     Len(sortedData), paginationState.pageSizeOptions)
          /\ emit("paginate")
          /\ UNCHANGED <<options, originalData, filteredData, sortedData,
                         paginatedData, sortState, searchTerm, hiddenColumns,
                         listeners, held>>

goToPage(page) == GoToPageBody(page)

\* nextPage that goes to the next page without asking whether there is one
nextPage_NoGuard ==
  IF paginationState = NoPagination
  THEN UNCHANGED <<tableVars, listeners, held>> /\ NoEmit
  ELSE GoToPageBody(paginationState.page + 1)

nextPage ==
  IF paginationState = NoPagination \/ ~paginationState.hasNextPage
  THEN UNCHANGED <<tableVars, listeners, held>> /\ NoEmit
  ELSE GoToPageBody(paginationState.page + 1)

prevPage ==
  IF paginationState = NoPagination \/ ~paginationState.hasPrevPage
  THEN UNCHANGED <<tableVars, listeners, held>> /\ NoEmit
  ELSE GoToPageBody(paginationState.page - 1)

setPageSize(size) ==
  IF paginationState = NoPagination
  THEN UNCHANGED <<tableVars, listeners, held>> /\ NoEmit
  ELSE LET resized == createPaginationState(1, size, Len(sortedData),
                                            paginationState.pageSizeOptions)
       IN /\ processData(originalData, searchTerm, sortState, resized)
          /\ emit("paginate")
          /\ UNCHANGED <<options, originalData, sortState, searchTerm, hiddenColumns,
                         listeners, held>>

\* the Set object is changed in place: whoever holds it sees the change
toggleColumn(columnId) ==
  /\ hiddenColumns' = IF columnId \in hiddenColumns
                      THEN hiddenColumns \ {columnId}
                      ELSE hiddenColumns \cup {columnId}
  /\ emit("columnToggle")
  /\ UNCHANGED <<options, originalData, filteredData, sortedData, paginatedData,
                 sortState, searchTerm, paginationState, listeners, held>>

\* showColumn that emits whether or not the column was hidden
showColumn_AlwaysEmits(columnId) ==
  /\ hiddenColumns' = hiddenColumns \ {columnId}
  /\ emit("columnToggle")
  /\ UNCHANGED <<options, originalData, filteredData, sortedData, paginatedData,
                 sortState, searchTerm, paginationState, listeners, held>>

showColumn(columnId) ==
  /\ hiddenColumns' = hiddenColumns \ {columnId}
  /\ IF columnId \in hiddenColumns THEN emit("columnToggle") ELSE NoEmit
  /\ UNCHANGED <<options, originalData, filteredData, sortedData, paginatedData,
                 sortState, searchTerm, paginationState, listeners, held>>

hideColumn(columnId) ==
  /\ hiddenColumns' = hiddenColumns \cup {columnId}
  /\ IF columnId \notin hiddenColumns THEN emit("columnToggle") ELSE NoEmit
  /\ UNCHANGED <<options, originalData, filteredData, sortedData, paginatedData,
                 sortState, searchTerm, paginationState, listeners, held>>

\* getState(): a frozen shallow copy; its hiddenColumns is the state's Set object
getState ==
  /\ held' = [taken |-> TRUE, asTaken |-> SnapshotNow, sharesHidden |-> TRUE,
              detachedHidden |-> {}]
  /\ UNCHANGED <<tableVars, listeners, emitQueue>>

\* reset that restores everything but the search term
reset_KeepsSearch ==
  /\ originalData' = options.data
  /\ sortState' = options.defaultSort
  /\ searchTerm' = searchTerm
  /\ hiddenColumns' = createInitialHidden
  /\ held' = IF held.sharesHidden
             THEN [held EXCEPT !.sharesHidden = FALSE, !.detachedHidden = hiddenColumns]
             ELSE held
  /\ processData(originalData', searchTerm', sortState', options.pagination)
  /\ emit("reset")
  /\ UNCHANGED <<options, listeners>>

\* the state gets a new Set object: a snapshot keeps the old one, as it is now
reset ==
  /\ originalData' = options.data
  /\ sortState' = options.defaultSort
  /\ searchTerm' = <<>>
  /\ hiddenColumns' = createInitialHidden
  /\ held' = IF held.sharesHidden
             THEN [held EXCEPT !.sharesHidden = FALSE, !.detachedHidden = hiddenColumns]
             ELSE held
  /\ processData(originalData', searchTerm', sortState', options.pagination)
  /\ emit("reset")
  /\ UNCHANGED <<options, listeners>>

\* setData that stores the rows and leaves the derived view as it was
setData_NoPipeline(data) ==
  /\ originalData' = data
  /\ NoEmit
  /\ UNCHANGED <<options, filteredData, sortedData, paginatedData, sortState,
                 searchTerm, paginationState, hiddenColumns, listeners, held>>

setData(data) ==
  /\ originalData' = data
  /\ processData(data, searchTerm, sortState, paginationState)
  /\ NoEmit
  /\ UNCHANGED <<options, sortState, searchTerm, hiddenColumns, listeners, held>>

\* the listener functions: "obs" notes the snapshot it is called with, "re" does
\* the same and calls search(ReentrantTerm)
ListenerFns == {"obs", "re"}

ReentrantTerm == <<"2">>

\* Set.prototype.add and Set.prototype.delete on an insertion-ordered set
SetAdd(seq, x) ==
  IF \E i \in 1..Len(seq) : seq[i] = x THEN seq ELSE Append(seq, x)

SetDelete(seq, x) == SelectSeq(seq, LAMBDA y : y # x)

on(eventType, listener) ==
  /\ listeners' = [listeners EXCEPT ![eventType] = SetAdd(@, listener)]
  /\ UNCHANGED <<tableVars, emitQueue, held>>

\* off(eventType, listener), and the unsubscribe function on() returned
off(eventType, listener) ==
  /\ listeners' = [listeners EXCEPT ![eventType] = SetDelete(@, listener)]
  /\ UNCHANGED <<tableVars, emitQueue, held>>

\* LiteTable.destroy(): listeners.clear()
destroyTable ==
  /\ listeners' = NoListeners
  /\ UNCHANGED <<tableVars, emitQueue, held>>

\* what a listener notes of the call emit() makes to it
Invocation == [fn |-> Head(emitQueue).fn, event |-> Head(emitQueue).event,
               snapshot |-> SnapshotNow]

\* emit() calls its next listener, which returns at once
ListenerObserves ==
  /\ emitQueue # <<>>
  /\ Head(emitQueue).fn = "obs"
  /\ observed' = [observed EXCEPT !.invoked = Append(@, Invocation)]
  /\ emitQueue' = Tail(emitQueue)
  /\ UNCHANGED <<tableVars, listeners, held>>

\* emit() calls its next listener, which calls search() before it returns
ListenerSearches ==
  /\ emitQueue # <<>>
  /\ Head(emitQueue).fn = "re"
  /\ observed' = [observed EXCEPT !.invoked = Append(@, Invocation)]
  /\ search(ReentrantTerm)

\* emit() calls its next listener, which calls destroy() before it returns:
\* listeners.clear() empties the Map, and the forEach of emit() goes on over
\* the Set it was started on
ListenerDestroys ==
  /\ emitQueue # <<>>
  /\ Head(emitQueue).fn = "de"
  /\ observed' = [observed EXCEPT !.invoked = Append(@, Invocation)]
  /\ listeners' = NoListeners
  /\ emitQueue' = Tail(emitQueue)
  /\ UNCHANGED <<tableVars, held>>

getRows == paginatedData

getAllRows == sortedData

\* the default getRowId: String(row.id) of a string or number id, `row-${index}`
\* of any other row (index counted from 0)
generateRowId(row, index) ==
  IF row.id.t \in {"string", "number"} THEN StringOf(row.id)
  ELSE <<"r", "o", "w", "-">> \o NatToString(index)

\* originalData.find(...): the row of the smallest index whose id is the one
\* asked for, <<>> for undefined
getRowById(id) ==
  LET hits == {i \in 1..Len(originalData) :
                 generateRowId(originalData[i], i - 1) = id}
  IN IF hits = {} THEN <<>>
     ELSE <<originalData[CHOOSE i \in hits : \A j \in hits : i <= j]>>

(***************************************************************************)
(* VirtualScrollManager                                                    *)
(***************************************************************************)
\* longest backing array of a VirtualScrollManager
MaxVsRows == 4
\* largest scrollTop handed to handleScroll (the smallest is -MaxScrollTop)
MaxScrollTop == 12
\* largest index handed to scrollToIndex (the smallest is -1)
MaxIndexArg == 5

VARIABLES
  vsConfig,   \* VirtualScrollManager.config: rowHeight, containerHeight, overscan
  vsData,     \* VirtualScrollManager.data
  vsState     \* VirtualScrollManager.state

vsVars == <<vsConfig, vsData, vsState>>

\* Math.floor(a / b) for b > 0
FloorDiv(a, b) == a \div b

\* Math.ceil(a / b) for b > 0 and any integer a
CeilQuot(a, b) == 0 - ((0 - a) \div b)

DefaultOverscan == 5

\* the VirtualScrollConfig objects handed to the constructor; overscan <<>>: omitted
VsConfigs ==
  { [rowHeight |-> rh, containerHeight |-> ch, overscan |-> os] :
      rh \in {2, 3}, ch \in {1, 4}, os \in {<<0>>, <<1>>, <<>>} }

\* the arrays of n rows handed to the constructor and to updateData
VsArray(n) == [i \in 1..n |-> 100 + i]

VsDataSets == {VsArray(n) : n \in 0..MaxVsRows}

\* calculateVirtualScroll that does not cap endIndex at the array length
calculateVirtualScroll_NoCap(data, config, scrollTop) ==
  LET overscan == config.overscan
      startIndex == Max(0, FloorDiv(scrollTop, config.rowHeight) - overscan)
      visibleRows == CeilQuot(config.containerHeight, config.rowHeight)
  IN [startIndex |-> startIndex,
      endIndex |-> startIndex + visibleRows + overscan * 2,
      totalHeight |-> Len(data) * config.rowHeight,
      scrollTop |-> scrollTop,
      visibleRows |-> visibleRows,
      offsetY |-> startIndex * config.rowHeight]

\* calculateVirtualScroll whose range runs to the end of the array
calculateVirtualScroll_ToTheEnd(data, config, scrollTop) ==
  LET overscan == config.overscan
      startIndex == Max(0, FloorDiv(scrollTop, config.rowHeight) - overscan)
      visibleRows == CeilQuot(config.containerHeight, config.rowHeight)
  IN [startIndex |-> startIndex,
      endIndex |-> Len(data),
      totalHeight |-> Len(data) * config.rowHeight,
      scrollTop |-> scrollTop,
      visibleRows |-> visibleRows,
      offsetY |-> startIndex * config.rowHeight]

calculateVirtualScroll(data, config, scrollTop) ==
  LET rowHeight == config.rowHeight
      containerHeight == config.containerHeight
      overscan == config.overscan
      totalHeight == Len(data) * rowHeight
      startIndex == Max(0, FloorDiv(scrollTop, rowHeight) - overscan)
      visibleRows == CeilQuot(containerHeight, rowHeight)
      endIndex == Min(Len(data), startIndex + visibleRows + overscan * 2)
      offsetY == startIndex * rowHeight
  IN [startIndex |-> startIndex,
      endIndex |-> endIndex,
      totalHeight |-> totalHeight,
      scrollTop |-> scrollTop,
      visibleRows |-> visibleRows,
      offsetY |-> offsetY]

getVirtualRows(data, state) == Slice(data, state.startIndex, state.endIndex)

\* VirtualScrollManager.getVisibleRows()
getVisibleRows == getVirtualRows(vsData, vsState)

VsInit ==
  /\ vsData \in VsDataSets
  /\ vsConfig \in { [rowHeight |-> c.rowHeight,
                     overscan |-> IF c.overscan = <<>> THEN DefaultOverscan ELSE c.overscan[1],
                     containerHeight |-> c.containerHeight] : c \in VsConfigs }
  /\ vsState = calculateVirtualScroll(vsData, vsConfig, 0)

handleScroll(scrollTop) ==
  /\ vsState' = calculateVirtualScroll(vsData, vsConfig, scrollTop)
  /\ UNCHANGED <<vsConfig, vsData>>

updateData(data) ==
  /\ vsData' = data
  /\ vsState' = calculateVirtualScroll(data, vsConfig, vsState.scrollTop)
  /\ UNCHANGED vsConfig

scrollToIndex(index) ==
  LET scrollTop == Max(0, Min(index * vsConfig.rowHeight,
                              vsState.totalHeight - vsConfig.containerHeight))
  IN handleScroll(scrollTop)

(***************************************************************************)
(* ServerSideManager                                                       *)
(***************************************************************************)
\* fetchData invocations of one run without debounced calls
MaxCalls == 3
\* fetchDataDebounced calls of one run
MaxDebounced == 2
\* fetchData invocations of one run with debounced calls, the timers' included
MaxDebouncedFetches == 2
\* config.searchDebounce, in clock ticks
SearchDebounce == 2
\* fetchData invocations of one run with transform hooks
MaxHookCalls == 2
\* fetchDataDebounced calls of one run in which direct calls overtake the timer
MaxOvertaken == 1

VARIABLES
  ssConfig,         \* ServerSideManager.config: searchDebounce, onError and the
                    \* transform hooks given or not
  ssState,          \* ServerSideManager.state
  ssListeners,      \* ServerSideManager.listeners: one subscriber from the start
  ssDelivered,      \* the state the subscribers were last called with
  abortController,  \* the request whose AbortController the field holds, 0: null
  debounceTimeout,  \* the timer handle held by the field, 0: null
  requests,         \* the fetchData invocations so far, in order of issue
  timers,           \* the setTimeout timers that are still pending
  timerCount,       \* timers created so far
  sinceDebounced,   \* ticks since the last fetchDataDebounced call, at most SearchDebounce
  rapid,            \* every fetchDataDebounced call came within the delay of the one before
  lastDebounced,    \* the params of the last fetchDataDebounced call
  onErrorCalls,     \* per request, the invocations of config.onError it made
  commits           \* per request, the responses or errors it wrote to the state

ssVars ==
  <<ssConfig, ssState, ssListeners, ssDelivered, abortController, debounceTimeout,
    requests, timers, timerCount, sinceDebounced, rapid, lastDebounced, onErrorCalls,
    commits>>

NoError == [kind |-> "none", req |-> 0, status |-> 0, statusText |-> ""]

NoParams == [page |-> 0, pageSize |-> 0]

\* the ServerRequestParams handed to fetchData and fetchDataDebounced
ParamSet == {[page |-> p, pageSize |-> 10] : p \in 1..2}

\* the body { data, total } the server answers request r with
ResponseOf(r) == [data |-> <<[row |-> r, page |-> requests[r].params.page]>>,
                  total |-> 10 + r]

\* the non-2xx statuses the server answers with
HttpStatuses == {404, 500}

\* response.statusText of a status
StatusText(status) == IF status = 404 THEN "Not Found" ELSE "Internal Server Error"

\* new Error(`HTTP ${status}: ${statusText}`) of request r
HttpError(r, status) ==
  [kind |-> "http", req |-> r, status |-> status, statusText |-> StatusText(status)]

\* the rejection of fetch() of request r by the network
NetworkError(r) == [kind |-> "network", req |-> r, status |-> 0, statusText |-> ""]

\* the rejection of response.json() of request r
ParseError(r) == [kind |-> "parse", req |-> r, status |-> 0, statusText |-> ""]

\* the rejection by an aborted signal: error.name === 'AbortError'
AbortError(r) == [kind |-> "abort", req |-> r, status |-> 0, statusText |-> ""]

\* what a transformRequest or transformResponse hook throws in request r
HookError(r) == [kind |-> "hook", req |-> r, status |-> 0, statusText |-> ""]

\* the state the constructor builds
InitialState ==
  [loading |-> FALSE, error |-> NoError, data |-> <<>>, totalRows |-> 0,
   lastParams |-> NoParams]

SsInit ==
  /\ ssConfig \in {[searchDebounce |-> SearchDebounce, onError |-> b, hooks |-> h] :
                     b \in BOOLEAN, h \in BOOLEAN}
  /\ ssState = InitialState
  /\ ssListeners = {"listener"}
  /\ ssDelivered = InitialState
  /\ abortController = 0
  /\ debounceTimeout = 0
  /\ requests = <<>>
  /\ timers = {}
  /\ timerCount = 0
  /\ sinceDebounced = 0
  /\ rapid = TRUE
  /\ lastDebounced = NoParams
  /\ onErrorCalls = <<>>
  /\ commits = <<>>

\* a continuation of an aborted request is queued: it runs before any later task
MicrotaskPending ==
  \E r \in DOMAIN requests : requests[r].aborted /\ requests[r].phase # "done"

\* AbortController.abort() of the controller request c made
AbortSignal(reqs, c) ==
  IF c = 0 THEN reqs ELSE [reqs EXCEPT ![c].aborted = TRUE]

\* updateState(partial): newState is { ...state, ...partial }; every subscriber
\* is called with a copy of it
updateState(newState) ==
  /\ ssState' = newState
  /\ ssDelivered' = IF ssListeners = {} THEN ssDelivered ELSE newState

\* the record of a fetchData invocation that has reached fetch()
NewRequest(params, source) ==
  [params |-> params, phase |-> "fetch", aborted |-> FALSE, outcome |-> "pending",
   source |-> source,
   pendingAtIssue |-> {r \in DOMAIN requests : requests[r].phase # "done"},
   atCancel |-> FALSE, promise |-> "pending"]

\* fetchData that issues its request without aborting the one in flight
FetchDataStart_NoAbort(params, source) ==
  /\ requests' = Append(requests, NewRequest(params, source))
  /\ abortController' = Len(requests) + 1
  /\ updateState([ssState EXCEPT !.loading = TRUE, !.error = NoError,
                                 !.lastParams = params])
  /\ onErrorCalls' = Append(onErrorCalls, 0)
  /\ commits' = Append(commits, 0)

\* fetchData that writes its loading state without clearing the error
FetchDataStart_KeepsError(params, source) ==
  /\ requests' = Append(AbortSignal(requests, abortController),
                        NewRequest(params, source))
  /\ abortController' = Len(requests) + 1
  /\ updateState([ssState EXCEPT !.loading = TRUE, !.lastParams = params])
  /\ onErrorCalls' = Append(onErrorCalls, 0)
  /\ commits' = Append(commits, 0)

\* fetchData up to its first await: abort, new controller, loading state, fetch()
FetchDataStart(params, source) ==
  /\ requests' = Append(AbortSignal(requests, abortController),
                        NewRequest(params, source))
  /\ abortController' = Len(requests) + 1
  /\ updateState([ssState EXCEPT !.loading = TRUE, !.error = NoError,
                                 !.lastParams = params])
  /\ onErrorCalls' = Append(onErrorCalls, 0)
  /\ commits' = Append(commits, 0)

fetchData(params) ==
  /\ FetchDataStart(params, "direct")
  /\ UNCHANGED <<ssConfig, ssListeners, debounceTimeout, timers, timerCount,
                 sinceDebounced, rapid, lastDebounced>>

\* the try block after `await response.json()`: the success update
CommitSuccess(r) ==
  /\ updateState([ssState EXCEPT !.loading = FALSE,
                                 !.data = ResponseOf(r).data,
                                 !.totalRows = ResponseOf(r).total])
  /\ commits' = [commits EXCEPT ![r] = @ + 1]
  /\ UNCHANGED onErrorCalls

\* a catch block that treats an AbortError as any other error
CatchError_AbortIsError(r, err) ==
  /\ updateState([ssState EXCEPT !.loading = FALSE, !.error = err,
                                 !.data = <<>>, !.totalRows = 0])
  /\ commits' = [commits EXCEPT ![r] = @ + 1]
  /\ onErrorCalls' = IF ssConfig.onError
                     THEN [onErrorCalls EXCEPT ![r] = @ + 1]
                     ELSE onErrorCalls

\* a catch block that leaves the rows of the last response in place
CatchError_KeepsData(r, err) ==
  IF err.kind = "abort"
  THEN UNCHANGED <<ssState, ssDelivered, commits, onErrorCalls>>
  ELSE /\ updateState([ssState EXCEPT !.loading = FALSE, !.error = err])
       /\ commits' = [commits EXCEPT ![r] = @ + 1]
       /\ onErrorCalls' = IF ssConfig.onError
                          THEN [onErrorCalls EXCEPT ![r] = @ + 1]
                          ELSE onErrorCalls

\* a catch block that calls the error handler before it looks for an AbortError
CatchError_OnErrorForAbort(r, err) ==
  /\ onErrorCalls' = IF ssConfig.onError
                     THEN [onErrorCalls EXCEPT ![r] = @ + 1]
                     ELSE onErrorCalls
  /\ IF err.kind = "abort"
     THEN UNCHANGED <<ssState, ssDelivered, commits>>
     ELSE /\ updateState([ssState EXCEPT !.loading = FALSE, !.error = err,
                                         !.data = <<>>, !.totalRows = 0])
          /\ commits' = [commits EXCEPT ![r] = @ + 1]

\* a catch block that records the error and leaves the loading flag as it was
CatchError_LeavesLoading(r, err) ==
  IF err.kind = "abort"
  THEN UNCHANGED <<ssState, ssDelivered, commits, onErrorCalls>>
  ELSE /\ updateState([ssState EXCEPT !.error = err,
                                      !.data = <<>>, !.totalRows = 0])
       /\ commits' = [commits EXCEPT ![r] = @ + 1]
       /\ onErrorCalls' = IF ssConfig.onError
                          THEN [onErrorCalls EXCEPT ![r] = @ + 1]
                          ELSE onErrorCalls

\* the catch block of fetchData, entered with error err by request r
CatchError(r, err) ==
  IF err.kind = "abort"
  THEN UNCHANGED <<ssState, ssDelivered, commits, onErrorCalls>>
  ELSE /\ updateState([ssState EXCEPT !.loading = FALSE, !.error = err,
                                      !.data = <<>>, !.totalRows = 0])
       /\ commits' = [commits EXCEPT ![r] = @ + 1]
       /\ onErrorCalls' = IF ssConfig.onError
                          THEN [onErrorCalls EXCEPT ![r] = @ + 1]
                          ELSE onErrorCalls

\* the finally block of fetchData, run by request r
Finally(r, outcome) ==
  /\ abortController' = 0
  /\ requests' = [requests EXCEPT ![r].phase = "done", ![r].outcome = outcome,
                                  ![r].promise = "fulfilled"]

SsFrame ==
  UNCHANGED <<ssConfig, ssListeners, debounceTimeout, timers, timerCount,
              sinceDebounced, rapid, lastDebounced>>

\* fetch() or response.json() of an aborted request rejects with an AbortError
AbortSettle(r) ==
  /\ r \in DOMAIN requests
  /\ requests[r].phase # "done"
  /\ requests[r].aborted
  /\ CatchError(r, AbortError(r))
  /\ Finally(r, "aborted")
  /\ SsFrame

\* fetch() resolves with response.ok: the call goes on to await response.json()
FetchResolveOk(r) ==
  /\ r \in DOMAIN requests
  /\ requests[r].phase = "fetch"
  /\ ~requests[r].aborted
  /\ ~MicrotaskPending
  /\ requests' = [requests EXCEPT ![r].phase = "json"]
  /\ UNCHANGED <<ssState, ssDelivered, abortController, onErrorCalls, commits>>
  /\ SsFrame

\* fetch() resolves with a non-2xx status: the try block throws
FetchResolveHttpError(r) ==
  /\ r \in DOMAIN requests
  /\ requests[r].phase = "fetch"
  /\ ~requests[r].aborted
  /\ ~MicrotaskPending
  /\ \E status \in HttpStatuses : CatchError(r, HttpError(r, status))
  /\ Finally(r, "httpError")
  /\ SsFrame

\* fetch() rejects with a network failure
FetchReject(r) ==
  /\ r \in DOMAIN requests
  /\ requests[r].phase = "fetch"
  /\ ~requests[r].aborted
  /\ ~MicrotaskPending
  /\ CatchError(r, NetworkError(r))
  /\ Finally(r, "networkError")
  /\ SsFrame

\* response.json() resolves
JsonResolve(r) ==
  /\ r \in DOMAIN requests
  /\ requests[r].phase = "json"
  /\ ~requests[r].aborted
  /\ ~MicrotaskPending
  /\ CommitSuccess(r)
  /\ Finally(r, "success")
  /\ SsFrame

\* response.json() rejects: the body is not JSON
JsonReject(r) ==
  /\ r \in DOMAIN requests
  /\ requests[r].phase = "json"
  /\ ~requests[r].aborted
  /\ ~MicrotaskPending
  /\ CatchError(r, ParseError(r))
  /\ Finally(r, "parseError")
  /\ SsFrame

\* fetchData whose transformRequest hook throws: the loading update, then the
\* catch block and the finally block, all before fetchData returns its promise
fetchDataRequestHookThrows(params) ==
  LET id == Len(requests) + 1
      loadingState == [ssState EXCEPT !.loading = TRUE, !.error = NoError,
                                      !.lastParams = params]
  IN /\ ssConfig.hooks
     /\ requests' = Append(AbortSignal(requests, abortController),
                           [NewRequest(params, "direct") EXCEPT
                              !.phase = "done", !.outcome = "hookError",
                              !.promise = "fulfilled"])
     /\ abortController' = 0
     /\ updateState([loadingState EXCEPT !.loading = FALSE, !.error = HookError(id),
                                         !.data = <<>>, !.totalRows = 0])
     /\ commits' = Append(commits, 1)
     /\ onErrorCalls' = Append(onErrorCalls, IF ssConfig.onError THEN 1 ELSE 0)
     /\ SsFrame

\* response.json() resolves and the transformResponse hook throws
TransformResponseThrows(r) ==
  /\ ssConfig.hooks
  /\ r \in DOMAIN requests
  /\ requests[r].phase = "json"
  /\ ~requests[r].aborted
  /\ ~MicrotaskPending
  /\ CatchError(r, HookError(r))
  /\ Finally(r, "hookError")
  /\ SsFrame

\* clearTimeout(handle)
ClearTimeout(ts, handle) == {t \in ts : t.id # handle}

\* fetchDataDebounced that starts its timer without clearing the previous one
fetchDataDebounced_NoClear(params) ==
  /\ timerCount' = timerCount + 1
  /\ timers' = timers \cup {[id |-> timerCount + 1, params |-> params,
                             remaining |-> ssConfig.searchDebounce]}
  /\ debounceTimeout' = timerCount + 1
  /\ rapid' = (rapid /\ (timerCount = 0 \/ sinceDebounced < ssConfig.searchDebounce))
  /\ sinceDebounced' = 0
  /\ lastDebounced' = params
  /\ UNCHANGED <<ssConfig, ssState, ssListeners, ssDelivered, abortController,
                 requests, onErrorCalls, commits>>

fetchDataDebounced(params) ==
  /\ timerCount' = timerCount + 1
  /\ timers' = ClearTimeout(timers, debounceTimeout)
                 \cup {[id |-> timerCount + 1, params |-> params,
                        remaining |-> ssConfig.searchDebounce]}
  /\ debounceTimeout' = timerCount + 1
  /\ rapid' = (rapid /\ (timerCount = 0 \/ sinceDebounced < ssConfig.searchDebounce))
  /\ sinceDebounced' = 0
  /\ lastDebounced' = params
  /\ UNCHANGED <<ssConfig, ssState, ssListeners, ssDelivered, abortController,
                 requests, onErrorCalls, commits>>

\* the setTimeout callback of timer t runs: fetchData(params)
TimerFire(t) ==
  /\ t \in timers
  /\ t.remaining = 0
  /\ ~MicrotaskPending
  /\ timers' = timers \ {t}
  /\ FetchDataStart(t.params, "timer")
  /\ UNCHANGED <<ssConfig, ssListeners, debounceTimeout, timerCount,
                 sinceDebounced, rapid, lastDebounced>>

\* one unit of time passes
Tick ==
  /\ ~MicrotaskPending
  /\ \/ sinceDebounced < ssConfig.searchDebounce /\ timerCount > 0
     \/ \E t \in timers : t.remaining > 0
  /\ timers' = {[t EXCEPT !.remaining = Max(0, t.remaining - 1)] : t \in timers}
  /\ sinceDebounced' = Min(ssConfig.searchDebounce, sinceDebounced + 1)
  /\ UNCHANGED <<ssConfig, ssState, ssListeners, ssDelivered, abortController,
                 debounceTimeout, requests, timerCount, rapid, lastDebounced,
                 onErrorCalls, commits>>

\* the requests still unsettled when cancel() runs are noted as such
MarkInFlight(reqs) ==
  [r \in DOMAIN reqs |->
     IF reqs[r].phase # "done" THEN [reqs[r] EXCEPT !.atCancel = TRUE] ELSE reqs[r]]

\* the body of cancel(), shared with destroy()
CancelBody ==
  /\ requests' = MarkInFlight(AbortSignal(requests, abortController))
  /\ abortController' = 0
  /\ timers' = ClearTimeout(timers, debounceTimeout)
  /\ debounceTimeout' = 0
  /\ UNCHANGED <<ssConfig, ssState, ssDelivered, timerCount, sinceDebounced, rapid,
                 lastDebounced, onErrorCalls, commits>>

cancel ==
  /\ CancelBody
  /\ UNCHANGED ssListeners

destroy ==
  /\ CancelBody
  /\ ssListeners' = {}

(***************************************************************************)
(* ServerSideManager: the request fetchData sends                          *)
(***************************************************************************)
VARIABLES
  rqConfig,   \* ServerSideManager.config: method, pagination, sorting, filtering
  rqSent      \* the last request handed to fetch(): its params, query and body

rqVars == <<rqConfig, rqSent>>

\* the keys of a ServerRequestParams object; "filter" is a key of the caller's own
ParamKeys == {"page", "pageSize", "sortBy", "sortDirection", "search", "filter"}

\* what an object holds under a key: nothing ("absent"), undefined, null, the
\* empty string ("empty") or any other value ("set")
RequestParams ==
  { [page |-> "set", pageSize |-> "set", sortBy |-> sb, sortDirection |-> sd,
     search |-> se, filter |-> ex] :
      sb \in {"absent", "empty", "set"}, sd \in {"absent", "set"},
      se \in {"absent", "empty", "set"}, ex \in {"absent", "undefined", "null", "set"} }

\* an object without keys
NoKeys == [k \in ParamKeys |-> "absent"]

\* no request has been sent
NoRequest == [method |-> "none", params |-> NoKeys, query |-> NoKeys, body |-> NoKeys]

RqConfigs ==
  { [method |-> m, pagination |-> pg, sorting |-> so, filtering |-> fi] :
      m \in {"GET", "POST"}, pg \in BOOLEAN, so \in BOOLEAN, fi \in BOOLEAN }

\* obj[key]: undefined for a key the object does not have
ReadKey(obj, key) == IF obj[key] = "absent" THEN "undefined" ELSE obj[key]

\* the value is truthy: undefined, null and '' are not
Truthy(value) == value = "set"

buildDefaultParams(params) ==
  [k \in ParamKeys |->
     CASE k \in {"page", "pageSize"} ->
            IF rqConfig.pagination THEN ReadKey(params, k) ELSE "absent"
       [] k \in {"sortBy", "sortDirection"} ->
            IF rqConfig.sorting /\ Truthy(ReadKey(params, "sortBy"))
            THEN ReadKey(params, k) ELSE "absent"
       [] k = "search" ->
            IF rqConfig.filtering /\ Truthy(ReadKey(params, "search"))
            THEN ReadKey(params, k) ELSE "absent"
       [] OTHER -> params[k]]

\* the query parameters of the URL: none for POST, the keys whose value is
\* neither undefined nor null for GET
buildUrl(requestParams) ==
  IF rqConfig.method = "POST" THEN NoKeys
  ELSE [k \in ParamKeys |->
          IF requestParams[k] \in {"absent", "undefined", "null"} THEN "absent"
          ELSE requestParams[k]]

\* JSON.stringify of an object: a key whose value is undefined is left out, a
\* key whose value is null is written as null
JsonStringify(obj) ==
  [k \in ParamKeys |-> IF obj[k] \in {"absent", "undefined"} THEN "absent" ELSE obj[k]]

\* fetchData, from its try block to the call of fetch(url, { method, body })
BuildRequest(params) ==
  LET requestParams == buildDefaultParams(params)
  IN /\ rqSent' = [method |-> rqConfig.method,
                   params |-> params,
                   query |-> buildUrl(requestParams),
                   body |-> IF rqConfig.method = "POST"
                            THEN JsonStringify(requestParams) ELSE NoKeys]
     /\ UNCHANGED rqConfig

RqInit ==
  /\ rqConfig \in RqConfigs
  /\ rqSent = NoRequest

(***************************************************************************)
(* RowSelectionManager                                                     *)
(***************************************************************************)
\* most row ids handed to setRowIds in one call
MaxSelectionIds == 2

VARIABLES
  rsConfig,     \* RowSelectionManager.config: mode, preserveSelection
  rsRowIds,     \* RowSelectionManager.rowIds
  rsState,      \* RowSelectionManager.state: selectedRows, allSelected, someSelected
  rsListeners   \* RowSelectionManager.listeners

rsVars == <<rsConfig, rsRowIds, rsState, rsListeners>>

RowIdUniverse == {"a", "b", "c"}

\* new Set(rowIds) of the arrays handed to setRowIds
RowIdSets == {ids \in SUBSET RowIdUniverse : Cardinality(ids) <= MaxSelectionIds}

RsConfigs ==
  { [mode |-> m, preserveSelection |-> p] :
      m \in {"single", "multiple", "none"}, p \in BOOLEAN }

\* updateState() of the selection manager, on the selection just written
RsUpdateState(selectedRows, rowIds) ==
  LET totalRows == Cardinality(rowIds)
      selectedCount == Cardinality(selectedRows)
  IN rsState' = [selectedRows |-> selectedRows,
                 allSelected |-> totalRows > 0 /\ selectedCount = totalRows,
                 someSelected |-> selectedCount > 0 /\ selectedCount < totalRows]

setRowIds(rowIds) ==
  /\ rsRowIds' = rowIds
  /\ RsUpdateState(IF ~rsConfig.preserveSelection
                   THEN rsState.selectedRows \cap rowIds
                   ELSE rsState.selectedRows,
                   rowIds)
  /\ UNCHANGED <<rsConfig, rsListeners>>

selectRow(rowId) ==
  IF rsConfig.mode = "none" THEN UNCHANGED rsVars
  ELSE /\ RsUpdateState(IF rsConfig.mode = "single" THEN {rowId}
                        ELSE rsState.selectedRows \cup {rowId},
                        rsRowIds)
       /\ UNCHANGED <<rsConfig, rsRowIds, rsListeners>>

deselectRow(rowId) ==
  /\ RsUpdateState(rsState.selectedRows \ {rowId}, rsRowIds)
  /\ UNCHANGED <<rsConfig, rsRowIds, rsListeners>>

toggleRow(rowId) ==
  IF rowId \in rsState.selectedRows THEN deselectRow(rowId) ELSE selectRow(rowId)

selectAll ==
  IF rsConfig.mode # "multiple" THEN UNCHANGED rsVars
  ELSE /\ RsUpdateState(rsRowIds, rsRowIds)
       /\ UNCHANGED <<rsConfig, rsRowIds, rsListeners>>

deselectAll ==
  /\ RsUpdateState({}, rsRowIds)
  /\ UNCHANGED <<rsConfig, rsRowIds, rsListeners>>

toggleSelectAll == IF rsState.allSelected THEN deselectAll ELSE selectAll

\* RowSelectionManager.clear()
clearSelection == deselectAll

\* RowSelectionManager.onChange(listener)
selectionOnChange ==
  /\ rsListeners' = rsListeners \cup {"listener"}
  /\ UNCHANGED <<rsConfig, rsRowIds, rsState>>

\* RowSelectionManager.destroy(): the listeners and the selection are cleared,
\* updateState() is not called
destroySelection ==
  /\ rsListeners' = {}
  /\ rsState' = [rsState EXCEPT !.selectedRows = {}]
  /\ UNCHANGED <<rsConfig, rsRowIds>>

RsInit ==
  /\ rsConfig \in RsConfigs
  /\ rsRowIds = {}
  /\ rsState = [selectedRows |-> {}, allSelected |-> FALSE, someSelected |-> FALSE]
  /\ rsListeners = {}

(***************************************************************************)
(* Specifications: one per component, the other components left as built   *)
(***************************************************************************)
vars == <<tableVars, eventVars, vsVars, ssVars, rqVars, rsVars>>

\* a table, a scroll manager and a fetch manager nobody has called yet
TableIdle ==
  /\ TableInit
  /\ options.data = <<>>

VsIdle ==
  /\ VsInit
  /\ vsData = <<>>
  /\ vsConfig = [rowHeight |-> 2, overscan |-> 0, containerHeight |-> 4]

SsIdle ==
  /\ SsInit
  /\ ssConfig.onError
  /\ ~ssConfig.hooks

\* a request builder and a selection manager with the default configuration,
\* nobody has called yet
PluginsIdle ==
  /\ RqInit
  /\ rqConfig = [method |-> "GET", pagination |-> TRUE, sorting |-> TRUE,
                 filtering |-> TRUE]
  /\ RsInit
  /\ rsConfig = [mode |-> "multiple", preserveSelection |-> TRUE]

\* a call on a table nobody observes
TableRest == UNCHANGED <<observed, vsVars, ssVars, rqVars, rsVars>>

VsRest == UNCHANGED <<tableVars, eventVars, ssVars, rqVars, rsVars>>

SsRest == UNCHANGED <<tableVars, eventVars, vsVars, rqVars, rsVars>>

Init == TableInit /\ VsIdle /\ SsIdle /\ PluginsIdle

Next ==
  \/ \E c \in SortArgs, d \in SortDirections \cup {NULL} : sortBy(c, d) /\ TableRest
  \/ clearSort /\ TableRest
  \/ \E term \in SearchTerms : search(term) /\ TableRest
  \/ \E page \in -1..MaxPageArg : goToPage(page) /\ TableRest
  \/ nextPage /\ TableRest
  \/ prevPage /\ TableRest
  \/ \E size \in 1..MaxPageSize : setPageSize(size) /\ TableRest
  \/ \E c \in ToggleArgs : toggleColumn(c) /\ TableRest
  \/ \E c \in ToggleArgs : showColumn(c) /\ TableRest
  \/ \E c \in ToggleArgs : hideColumn(c) /\ TableRest
  \/ reset /\ TableRest
  \/ \E data \in DataSets : setData(data) /\ TableRest

Spec == Init /\ [][Next]_vars

\* page sizes of any sign, and the paging calls that follow them
PageSizeNext ==
  \/ \E size \in (0 - MaxPageSize)..MaxPageSize : setPageSize(size) /\ TableRest
  \/ \E page \in -1..MaxPageArg : goToPage(page) /\ TableRest
  \/ paginationState.page < MaxPageArg /\ nextPage /\ TableRest
  \/ prevPage /\ TableRest
  \/ \E term \in SearchTerms : search(term) /\ TableRest
  \/ \E data \in DataSets : setData(data) /\ TableRest

SpecPageSize == Init /\ [][PageSizeNext]_vars

ScrollInit == TableIdle /\ VsInit /\ SsIdle /\ PluginsIdle

ScrollNext ==
  \/ \E scrollTop \in (0 - MaxScrollTop)..MaxScrollTop : handleScroll(scrollTop) /\ VsRest
  \/ \E data \in VsDataSets : updateData(data) /\ VsRest
  \/ \E index \in -1..MaxIndexArg : scrollToIndex(index) /\ VsRest

SpecScroll == ScrollInit /\ [][ScrollNext]_vars

\* a manager without transform hooks, with an onError handler
FetchInit ==
  TableIdle /\ VsIdle /\ SsInit /\ ~ssConfig.hooks /\ ssConfig.onError /\ PluginsIdle

\* overlapping fetchData calls, their responses, cancel and destroy
FetchNext ==
  \/ \E params \in ParamSet : Len(requests) < MaxCalls /\ fetchData(params) /\ SsRest
  \/ \E r \in 1..MaxCalls : AbortSettle(r) /\ SsRest
  \/ \E r \in 1..MaxCalls : FetchResolveOk(r) /\ SsRest
  \/ \E r \in 1..MaxCalls : FetchResolveHttpError(r) /\ SsRest
  \/ \E r \in 1..MaxCalls : FetchReject(r) /\ SsRest
  \/ \E r \in 1..MaxCalls : JsonResolve(r) /\ SsRest
  \/ \E r \in 1..MaxCalls : JsonReject(r) /\ SsRest
  \/ cancel /\ SsRest
  \/ destroy /\ SsRest

SpecFetch == FetchInit /\ [][FetchNext]_vars

\* debounced calls and their timers, next to direct calls and cancel(); the
\* server answers every request it is let to answer, with a 2xx or a non-2xx
\* status
DebounceNext ==
  \/ \E params \in ParamSet :
       Len(requests) < MaxDebouncedFetches /\ fetchData(params) /\ SsRest
  \/ \E params \in ParamSet :
       timerCount < MaxDebounced /\ fetchDataDebounced(params) /\ SsRest
  \/ \E t \in timers : Len(requests) < MaxDebouncedFetches /\ TimerFire(t) /\ SsRest
  \/ Tick /\ SsRest
  \/ \E r \in 1..MaxDebouncedFetches : AbortSettle(r) /\ SsRest
  \/ \E r \in 1..MaxDebouncedFetches : FetchResolveOk(r) /\ SsRest
  \/ \E r \in 1..MaxDebouncedFetches : FetchResolveHttpError(r) /\ SsRest
  \/ \E r \in 1..MaxDebouncedFetches : JsonResolve(r) /\ SsRest
  \/ cancel /\ SsRest

DebounceInit == TableIdle /\ VsIdle /\ SsIdle /\ PluginsIdle

SpecDebounce == DebounceInit /\ [][DebounceNext]_vars

\* a manager with transformRequest and transformResponse hooks that may throw
HooksInit == TableIdle /\ VsIdle /\ SsInit /\ ssConfig.hooks /\ PluginsIdle

HooksNext ==
  \/ \E params \in ParamSet :
       Len(requests) < MaxHookCalls /\ fetchData(params) /\ SsRest
  \/ \E params \in ParamSet :
       Len(requests) < MaxHookCalls /\ fetchDataRequestHookThrows(params) /\ SsRest
  \/ \E r \in 1..MaxHookCalls : AbortSettle(r) /\ SsRest
  \/ \E r \in 1..MaxHookCalls : FetchResolveOk(r) /\ SsRest
  \/ \E r \in 1..MaxHookCalls : FetchResolveHttpError(r) /\ SsRest
  \/ \E r \in 1..MaxHookCalls : FetchReject(r) /\ SsRest
  \/ \E r \in 1..MaxHookCalls : JsonResolve(r) /\ SsRest
  \/ \E r \in 1..MaxHookCalls : TransformResponseThrows(r) /\ SsRest

SpecHooks == HooksInit /\ [][HooksNext]_vars

\* a table of two rows, one row to a page, with listeners coming and going
EventsInit ==
  /\ TableInit
  /\ options.data = <<Row1, Row2>>
  /\ VsIdle
  /\ SsIdle
  /\ PluginsIdle

OthersRest == UNCHANGED <<vsVars, ssVars, rqVars, rsVars>>

\* a call made from outside, while no emit() is on the stack
ObservedCall(op, column, direction, page) ==
  /\ emitQueue = <<>>
  /\ observed' = [call |-> [op |-> op, column |-> column, direction |-> direction,
                            page |-> page],
                  invoked |-> <<>>]

Observed(op, column) == ObservedCall(op, column, NULL, 0)

RECURSIVE SumLen(_, _)
SumLen(f, S) ==
  IF S = {} THEN 0
  ELSE LET e == CHOOSE x \in S : TRUE IN Len(f[e]) + SumLen(f, S \ {e})

Subscriptions == SumLen(listeners, EventTypes)

EventsNext ==
  \/ \E e \in EventTypes :
       Subscriptions < MaxSubscriptions /\ on(e, "obs") /\ Observed("on", "") /\ OthersRest
  \/ Subscriptions < MaxSubscriptions /\ on("sort", "re") /\ Observed("on", "") /\ OthersRest
  \/ \E e \in EventTypes, fn \in ListenerFns :
       off(e, fn) /\ Observed("off", "") /\ OthersRest
  \/ destroyTable /\ Observed("destroy", "") /\ OthersRest
  \/ \E c \in {"name", "zzz"} : sortBy(c, NULL) /\ Observed("sortBy", c) /\ OthersRest
  \/ clearSort /\ Observed("clearSort", "") /\ OthersRest
  \/ \E term \in {<<>>, ReentrantTerm} :
       search(term) /\ Observed("search", "") /\ OthersRest
  \/ goToPage(2) /\ Observed("goToPage", "") /\ OthersRest
  \/ nextPage /\ Observed("nextPage", "") /\ OthersRest
  \/ prevPage /\ Observed("prevPage", "") /\ OthersRest
  \/ setPageSize(MaxPageSize) /\ Observed("setPageSize", "") /\ OthersRest
  \/ \E c \in ToggleArgs : toggleColumn(c) /\ Observed("toggleColumn", c) /\ OthersRest
  \/ \E c \in ToggleArgs : showColumn(c) /\ Observed("showColumn", c) /\ OthersRest
  \/ \E c \in ToggleArgs : hideColumn(c) /\ Observed("hideColumn", c) /\ OthersRest
  \/ reset /\ Observed("reset", "") /\ OthersRest
  \/ setData(<<Row2>>) /\ Observed("setData", "") /\ OthersRest
  \/ ListenerObserves /\ OthersRest
  \/ ListenerSearches /\ OthersRest

SpecEvents == EventsInit /\ [][EventsNext]_vars

\* a table whose caller keeps the snapshot of one getState() call
SnapshotNext ==
  \/ getState /\ TableRest
  \/ \E c \in {"name", "zzz"} : sortBy(c, NULL) /\ TableRest
  \/ clearSort /\ TableRest
  \/ \E term \in {<<>>, ReentrantTerm} : search(term) /\ TableRest
  \/ \E page \in 1..2 : goToPage(page) /\ TableRest
  \/ setPageSize(MaxPageSize) /\ TableRest
  \/ \E c \in {"age"} : toggleColumn(c) /\ TableRest
  \/ \E c \in {"age"} : showColumn(c) /\ TableRest
  \/ \E c \in {"age"} : hideColumn(c) /\ TableRest
  \/ reset /\ TableRest
  \/ setData(<<Row2>>) /\ TableRest

SpecSnapshot == EventsInit /\ [][SnapshotNext]_vars

\* the TableOptions of the tables whose calls are followed one by one: a table
\* built with a default sort on its second page, and a table built with a
\* defaultSort that names a column and no direction (SortState allows it)
CallConfigs ==
  { [data |-> <<Row1, Row2>>, searchable |-> TRUE,
     defaultSort |-> [columnId |-> "name", direction |-> "desc"],
     pagination |-> [enabled |-> TRUE, page |-> 2, pageSize |-> 1]],
    [data |-> <<Row3>>, searchable |-> TRUE,
     defaultSort |-> [columnId |-> "name", direction |-> NULL],
     pagination |-> [enabled |-> FALSE, page |-> 1, pageSize |-> 10]] }

\* the arrays handed to setData in CallsNext
CallData == {<<Row3, Row2, Row1>>, <<Row2>>}

CallsInit == TableInitFrom(CallConfigs) /\ VsIdle /\ SsIdle /\ PluginsIdle

\* a table nobody listens to, every call from outside noted with its arguments
CallsNext ==
  \/ \E c \in SortArgs, d \in SortDirections \cup {NULL} :
       sortBy(c, d) /\ ObservedCall("sortBy", c, d, 0) /\ OthersRest
  \/ clearSort /\ Observed("clearSort", "") /\ OthersRest
  \/ \E term \in {<<>>, <<"2">>} : search(term) /\ Observed("search", "") /\ OthersRest
  \/ \E page \in (0 - 1)..MaxPageArg :
       goToPage(page) /\ ObservedCall("goToPage", "", NULL, page) /\ OthersRest
  \/ nextPage /\ Observed("nextPage", "") /\ OthersRest
  \/ prevPage /\ Observed("prevPage", "") /\ OthersRest
  \/ \E size \in 1..MaxPageSize :
       setPageSize(size) /\ Observed("setPageSize", "") /\ OthersRest
  \/ \E c \in ToggleArgs : toggleColumn(c) /\ Observed("toggleColumn", c) /\ OthersRest
  \/ \E c \in ToggleArgs : showColumn(c) /\ Observed("showColumn", c) /\ OthersRest
  \/ \E c \in ToggleArgs : hideColumn(c) /\ Observed("hideColumn", c) /\ OthersRest
  \/ reset /\ Observed("reset", "") /\ OthersRest
  \/ \E data \in CallData : setData(data) /\ Observed("setData", "") /\ OthersRest

SpecCalls == CallsInit /\ [][CallsNext]_vars

\* a table that is destroyed from outside or by one of its 'sort' listeners
\* ("de"), and used afterwards
TeardownNext ==
  \/ \E e \in {"sort", "search"} :
       Subscriptions < MaxSubscriptions /\ on(e, "obs") /\ Observed("on", "") /\ OthersRest
  \/ Subscriptions < MaxSubscriptions /\ on("sort", "de") /\ Observed("on", "") /\ OthersRest
  \/ destroyTable /\ Observed("destroy", "") /\ OthersRest
  \/ sortBy("name", NULL) /\ Observed("sortBy", "name") /\ OthersRest
  \/ \E term \in {<<>>, ReentrantTerm} :
       search(term) /\ Observed("search", "") /\ OthersRest
  \/ goToPage(2) /\ Observed("goToPage", "") /\ OthersRest
  \/ toggleColumn("age") /\ Observed("toggleColumn", "age") /\ OthersRest
  \/ reset /\ Observed("reset", "") /\ OthersRest
  \/ setData(<<Row2>>) /\ Observed("setData", "") /\ OthersRest
  \/ ListenerObserves /\ OthersRest
  \/ ListenerDestroys /\ OthersRest

SpecTeardown == EventsInit /\ [][TeardownNext]_vars

\* the continuation of request r: whatever fetch() or response.json() settles to
Respond(r) ==
  \/ AbortSettle(r) /\ SsRest
  \/ FetchResolveOk(r) /\ SsRest
  \/ FetchResolveHttpError(r) /\ SsRest
  \/ FetchReject(r) /\ SsRest
  \/ JsonResolve(r) /\ SsRest
  \/ JsonReject(r) /\ SsRest

\* fetchData calls and their answers, without cancel and destroy
AnsweredNext ==
  \/ \E params \in ParamSet : Len(requests) < MaxCalls /\ fetchData(params) /\ SsRest
  \/ \E r \in 1..MaxCalls : Respond(r)

\* every pending promise of fetch() and response.json() settles, and the
\* continuation awaiting it runs
SpecAnswered ==
  /\ FetchInit
  /\ [][AnsweredNext]_vars
  /\ \A r \in 1..MaxCalls : WF_vars(Respond(r))

\* a debounced call, and direct fetchData calls made while its timer is pending
OvertakeNext ==
  \/ \E params \in ParamSet :
       timers # {} /\ Len(requests) < MaxCalls /\ fetchData(params) /\ SsRest
  \/ \E params \in ParamSet :
       timerCount < MaxOvertaken /\ fetchDataDebounced(params) /\ SsRest
  \/ \E t \in timers : Len(requests) < MaxCalls /\ TimerFire(t) /\ SsRest
  \/ Tick /\ SsRest
  \/ \E r \in 1..MaxCalls : AbortSettle(r) /\ SsRest
  \/ \E r \in 1..MaxCalls : FetchResolveOk(r) /\ SsRest
  \/ \E r \in 1..MaxCalls : JsonResolve(r) /\ SsRest

SpecOvertake == DebounceInit /\ [][OvertakeNext]_vars

\* the requests a manager of any configuration sends for the params it is handed
RequestInit ==
  /\ TableIdle /\ VsIdle /\ SsIdle
  /\ RqInit
  /\ RsInit /\ rsConfig = [mode |-> "multiple", preserveSelection |-> TRUE]

RequestNext ==
  \E params \in RequestParams :
    BuildRequest(params) /\ UNCHANGED <<tableVars, eventVars, vsVars, ssVars, rsVars>>

SpecRequest == RequestInit /\ [][RequestNext]_vars

\* a selection manager of any configuration
SelectionInit ==
  /\ TableIdle /\ VsIdle /\ SsIdle
  /\ RqInit
  /\ rqConfig = [method |-> "GET", pagination |-> TRUE, sorting |-> TRUE,
                 filtering |-> TRUE]
  /\ RsInit

RsRest == UNCHANGED <<tableVars, eventVars, vsVars, ssVars, rqVars>>

SelectionNext ==
  \/ \E rowIds \in RowIdSets : setRowIds(rowIds) /\ RsRest
  \/ \E rowId \in RowIdUniverse : selectRow(rowId) /\ RsRest
  \/ \E rowId \in RowIdUniverse : deselectRow(rowId) /\ RsRest
  \/ \E rowId \in RowIdUniverse : toggleRow(rowId) /\ RsRest
  \/ selectAll /\ RsRest
  \/ deselectAll /\ RsRest
  \/ toggleSelectAll /\ RsRest
  \/ clearSelection /\ RsRest
  \/ selectionOnChange /\ RsRest
  \/ destroySelection /\ RsRest

SpecSelection == SelectionInit /\ [][SelectionNext]_vars

(***************************************************************************)
(* Properties of the table                                                 *)
(***************************************************************************)
\* a row passes the search: some filterable column holds a non-null value whose
\* string form contains the term, letter case ignored
RowMatches(row, term) ==
  \E i \in 1..Len(Columns) :
    /\ Columns[i].filterable
    /\ row[Columns[i].id].t # "null"
    /\ Includes(ToLowerCase(StringOf(row[Columns[i].id])), ToLowerCase(term))

RECURSIVE KeepMatching(_, _)
KeepMatching(data, term) ==
  IF data = <<>> THEN <<>>
  ELSE IF RowMatches(Head(data), term)
       THEN <<Head(data)>> \o KeepMatching(Tail(data), term)
       ELSE KeepMatching(Tail(data), term)

\* filter(originalData)
ExpectedFiltered ==
  IF options.searchable /\ searchTerm # <<>>
  THEN KeepMatching(originalData, searchTerm)
  ELSE originalData

\* value a comes strictly before value b in the direction: nulls last either way
ComesBefore(a, b, direction) ==
  IF a.t = "null" THEN FALSE
  ELSE IF b.t = "null" THEN TRUE
  ELSE LET less(x, y) ==
             IF x.t = "number" /\ y.t = "number" THEN x.n < y.n
             ELSE LocaleCompare(ToLowerCase(StringOf(x)), ToLowerCase(StringOf(y))) < 0
       IN IF direction = "asc" THEN less(a, b) ELSE less(b, a)

\* the sort state names a column of the table that may be sorted
SortApplies ==
  /\ sortState.columnId # NULL
  /\ sortState.direction # NULL
  /\ \E i \in 1..Len(Columns) :
       Columns[i].id = sortState.columnId /\ Columns[i].sortable

\* out is input in the order of the sort state, equal keys in their input order
IsStableSortOf(out, input) ==
  /\ Len(out) = Len(input)
  /\ \E p \in Permutations(1..Len(input)) :
       /\ \A i \in 1..Len(input) : out[i] = input[p[i]]
       /\ \A i, j \in 1..Len(input) :
            i < j =>
              LET a == out[i][sortState.columnId]
                  b == out[j][sortState.columnId]
              IN /\ ~ComesBefore(b, a, sortState.direction)
                 /\ (~ComesBefore(a, b, sortState.direction) => p[i] < p[j])

\* paginate(rows) from the current page and page size alone
ExpectedPage(rows) ==
  IF paginationState = NoPagination THEN rows
  ELSE Slice(rows, (paginationState.page - 1) * paginationState.pageSize,
             paginationState.page * paginationState.pageSize)

\* C1: after construction and after every operation, getAllRows() is the
\* stable sort of the filter of originalData (the filter sees originalData in
\* its order, the sort sees only the filtered rows) and getRows() is the page
\* of it that the current page and page size name.
C1_PipelineView ==
  /\ filteredData = ExpectedFiltered
  /\ IF SortApplies
     THEN IsStableSortOf(getAllRows, ExpectedFiltered)
     ELSE getAllRows = ExpectedFiltered
  /\ getRows = ExpectedPage(getAllRows)

\* a search drops a row, the sort reorders the two left, page 2 shows the second
C1_Witness ==
  /\ originalData = <<Row1, Row3, Row2>>
  /\ searchTerm = <<"B">>
  /\ sortState = [columnId |-> "name", direction |-> "asc"]
  /\ paginationState # NoPagination
  /\ paginationState.page = 2
  /\ getAllRows = <<Row2, Row1>>
  /\ getRows = <<Row1>>

\* C9: with pagination enabled and page sizes >= 1, in every state totalRows is
\* the length of the sorted view, totalPages = max(1, ceil(totalRows/pageSize)),
\* 1 <= page <= totalPages, startIndex = (page-1)*pageSize,
\* 0 <= startIndex <= endIndex <= totalRows, hasPrevPage iff page > 1,
\* hasNextPage iff page < totalPages, and an empty view has totalPages = 1 and
\* startIndex = endIndex = 0.
C9_PaginationInvariant ==
  paginationState # NoPagination =>
    LET ps == paginationState
    IN /\ ps.pageSize >= 1
       /\ ps.totalRows = Len(sortedData)
       /\ ps.totalPages >= 1
       /\ ps.totalPages * ps.pageSize >= ps.totalRows
       /\ (ps.totalPages > 1 => (ps.totalPages - 1) * ps.pageSize < ps.totalRows)
       /\ 1 <= ps.page /\ ps.page <= ps.totalPages
       /\ ps.startIndex = (ps.page - 1) * ps.pageSize
       /\ 0 <= ps.startIndex /\ ps.startIndex <= ps.endIndex
       /\ ps.endIndex <= ps.totalRows
       /\ (ps.hasPrevPage <=> ps.page > 1)
       /\ (ps.hasNextPage <=> ps.page < ps.totalPages)
       /\ (ps.totalRows = 0 => ps.totalPages = 1 /\ ps.startIndex = 0 /\ ps.endIndex = 0)

\* the table stands on the last of its three pages
C9_Witness ==
  /\ paginationState # NoPagination
  /\ paginationState.totalPages = 3
  /\ paginationState.page = 3
  /\ paginationState.startIndex = 2

\* the event type a call from outside emits, seen from the state it is made in
EventOf(call) ==
  CASE call.op = "sortBy" ->
         IF \E i \in 1..Len(Columns) : Columns[i].id = call.column /\ Columns[i].sortable
         THEN "sort" ELSE "none"
    [] call.op = "clearSort" -> "sort"
    [] call.op = "search" -> "search"
    [] call.op \in {"goToPage", "setPageSize"} ->
         IF paginationState # NoPagination THEN "paginate" ELSE "none"
    [] call.op = "nextPage" -> IF paginationState.hasNextPage THEN "paginate" ELSE "none"
    [] call.op = "prevPage" -> IF paginationState.hasPrevPage THEN "paginate" ELSE "none"
    [] call.op = "toggleColumn" -> "columnToggle"
    [] call.op = "showColumn" ->
         IF call.column \in hiddenColumns THEN "columnToggle" ELSE "none"
    [] call.op = "hideColumn" ->
         IF call.column \notin hiddenColumns THEN "columnToggle" ELSE "none"
    [] call.op = "reset" -> "reset"
    [] OTHER -> "none"

\* every listener subscribed to an event type, once, in subscription order
SubscribedTo(type) ==
  IF type = "none" THEN <<>>
  ELSE [i \in 1..Len(listeners[type]) |-> [fn |-> listeners[type][i], event |-> type]]

\* the listeners called so far for the last call from outside
CalledSoFar ==
  [i \in 1..Len(observed.invoked) |->
     [fn |-> observed.invoked[i].fn, event |-> observed.invoked[i].event]]

\* C18: a mutator call makes emit() call exactly the listeners subscribed to
\* its event type, each once: 'sort' for sortBy on a sortable column and for
\* clearSort, 'search' for search, 'paginate' for goToPage and setPageSize,
\* 'columnToggle' for toggleColumn and for a showColumn or hideColumn that
\* changes the column's visibility, 'reset' for reset, and no listener at all
\* for setData and for a showColumn or hideColumn that changes nothing; once the
\* call has returned, the listeners that were called are those of one event type.
C18_OneEventPerMutator ==
  /\ [][emitQueue = <<>> => emitQueue' = SubscribedTo(EventOf(observed'.call))]_vars
  /\ []((emitQueue = <<>> /\ \A i \in 1..Len(CalledSoFar) : CalledSoFar[i].fn # "re")
          => \E type \in EventTypes \cup {"none"} : CalledSoFar = SubscribedTo(type))
  /\ [](\A type \in EventTypes : \A i, j \in 1..Len(listeners[type]) :
          listeners[type][i] = listeners[type][j] => i = j)

\* sortBy has called the 'sort' listener once and left the 'search' listener alone
C18_Witness ==
  /\ observed.call.op = "sortBy"
  /\ observed.call.column = "name"
  /\ listeners["sort"] = <<"obs">>
  /\ listeners["search"] = <<"obs">>
  /\ emitQueue = <<>>
  /\ CalledSoFar = <<[fn |-> "obs", event |-> "sort"]>>

\* what is seen through the held snapshot now: its hiddenColumns is a Set object
ThroughSnapshot ==
  [held.asTaken EXCEPT !.hiddenColumns =
     IF held.sharesHidden THEN hiddenColumns ELSE held.detachedHidden]

\* C19: whatever is called after getState(), the snapshot it returned shows
\* what it showed when it was taken, its hiddenColumns and data arrays included.
C19_SnapshotImmutable == held.taken => ThroughSnapshot = held.asTaken

\* the derived fields of a snapshot are the pipeline's result for its inputs
FullyRecomputed(snap) ==
  /\ snap.filteredData = filterData(snap.originalData, snap.searchTerm)
  /\ snap.sortedData = sortData(snap.filteredData, snap.sortState)
  /\ snap.paginationState # NoPagination =>
       snap.paginationState =
         createPaginationState(snap.paginationState.page, snap.paginationState.pageSize,
                               Len(snap.sortedData),
                               snap.paginationState.pageSizeOptions)
  /\ snap.paginatedData = paginateData(snap.sortedData, snap.paginationState)

\* C20: every snapshot a listener is called with has its filteredData,
\* sortedData, paginationState and paginatedData recomputed from its
\* originalData, searchTerm and sortState, also when a listener has called
\* search() during the emission.
C20_ListenersSeeFinalState ==
  \A i \in 1..Len(observed.invoked) : FullyRecomputed(observed.invoked[i].snapshot)

\* a 'sort' listener has called search(), whose 'search' listener saw the
\* filtered view
C20_Witness ==
  /\ observed.call.op = "sortBy"
  /\ Len(observed.invoked) = 2
  /\ observed.invoked[1].fn = "re"
  /\ observed.invoked[1].snapshot.searchTerm = <<>>
  /\ observed.invoked[1].snapshot.sortState.columnId = "name"
  /\ observed.invoked[2].event = "search"
  /\ observed.invoked[2].snapshot.searchTerm = ReentrantTerm
  /\ observed.invoked[2].snapshot.sortedData = <<Row1>>

(***************************************************************************)
(* Properties of the scroll manager                                        *)
(***************************************************************************)
\* C7: with overscan 0 and 0 <= scrollTop <= totalHeight - containerHeight, the
\* range [startIndex, endIndex) holds every row that meets the pixel window
\* [scrollTop, scrollTop + containerHeight].
C7_WindowCovered ==
  (/\ vsConfig.overscan = 0
   /\ 0 <= vsState.scrollTop
   /\ vsState.scrollTop <= vsState.totalHeight - vsConfig.containerHeight)
  => /\ vsState.startIndex <= FloorDiv(vsState.scrollTop, vsConfig.rowHeight)
     /\ vsState.endIndex >=
          CeilQuot(vsState.scrollTop + vsConfig.containerHeight, vsConfig.rowHeight)

\* C8: over an empty array getVisibleRows() is [], over a single-row array it
\* is that row, whatever the scrollTop and the overscan.
C8_DegenerateData ==
  /\ (Len(vsData) = 0 => getVisibleRows = <<>>)
  /\ (Len(vsData) = 1 => getVisibleRows = vsData)

\* C10: in every state totalHeight = rowCount * rowHeight,
\* offsetY = startIndex * rowHeight, startIndex >= 0 and endIndex <= rowCount.
C10_ScrollInvariant ==
  /\ vsState.totalHeight = Len(vsData) * vsConfig.rowHeight
  /\ vsState.offsetY = vsState.startIndex * vsConfig.rowHeight
  /\ vsState.startIndex >= 0
  /\ vsState.endIndex <= Len(vsData)

\* the array has shrunk under a scroll position that is now past its end
C10_Witness ==
  /\ Len(vsData) >= 1
  /\ vsState.scrollTop > vsState.totalHeight
  /\ vsState.startIndex > Len(vsData)
  /\ vsState.endIndex = Len(vsData)

(***************************************************************************)
(* Properties of the fetch manager                                         *)
(***************************************************************************)
AllSettled == \A r \in DOMAIN requests : requests[r].phase = "done"

\* the state is what request r left: its response, its error, or (aborted)
\* nothing but the loading state it wrote when it was issued
StateReflects(r) ==
  LET outcome == requests[r].outcome
  IN /\ outcome = "success" =>
          ssState = [loading |-> FALSE, error |-> NoError,
                     data |-> ResponseOf(r).data, totalRows |-> ResponseOf(r).total,
                     lastParams |-> requests[r].params]
     /\ outcome \in {"httpError", "networkError", "parseError"} =>
          /\ ssState.loading = FALSE
          /\ ssState.error.req = r
          /\ ssState.data = <<>>
          /\ ssState.totalRows = 0
          /\ ssState.lastParams = requests[r].params
     /\ outcome = "aborted" =>
          ssState = [loading |-> TRUE, error |-> NoError, data |-> <<>>,
                     totalRows |-> 0, lastParams |-> requests[r].params]

\* C2: fetchData(A), then fetchData(B) before A's request has resolved: once
\* both have settled the state is B's outcome alone, and neither a commit nor an
\* onError call was made for A.
C2_SecondCallWins ==
  (/\ Len(requests) = 2
   /\ 1 \in requests[2].pendingAtIssue
   /\ AllSettled)
  => /\ commits[1] = 0
     /\ onErrorCalls[1] = 0
     /\ StateReflects(2)

\* A was aborted by B and B's response was committed
C2_Witness ==
  /\ Len(requests) = 2
  /\ 1 \in requests[2].pendingAtIssue
  /\ requests[1].outcome = "aborted"
  /\ requests[2].outcome = "success"
  /\ ssState.data = ResponseOf(2).data

\* C3: any number of fetchData calls, each issued while an earlier request is
\* unresolved: once all have settled, only the last call has committed and the
\* state is the last call's outcome.
C3_LastCallWins ==
  (/\ Len(requests) >= 2
   /\ \A r \in 2..Len(requests) : requests[r].pendingAtIssue # {}
   /\ AllSettled)
  => /\ \A r \in 1..(Len(requests) - 1) : commits[r] = 0
     /\ StateReflects(Len(requests))

\* the requests in flight whose signal has not been signaled
ActiveRequests ==
  {r \in DOMAIN requests : requests[r].phase # "done" /\ ~requests[r].aborted}

\* C4: in every state at most one request is active.
C4_AtMostOneActive == Cardinality(ActiveRequests) <= 1

\* C5: a call whose signal has been signaled never changes the state again: it
\* commits nothing, calls onError for nothing, and the step that settles it
\* leaves data, totalRows, error and loading as they are.
C5_AbortedNeverCommits ==
  [][\A r \in DOMAIN requests :
       requests[r].aborted =>
         /\ commits'[r] = commits[r]
         /\ onErrorCalls'[r] = onErrorCalls[r]
         /\ (requests'[r] # requests[r] => ssState' = ssState)]_vars

\* a request aborted by a later call has settled, after that call's response
C5_Witness ==
  \E r \in DOMAIN requests :
    /\ requests[r].aborted
    /\ requests[r].outcome = "aborted"
    /\ commits[r] = 0
    /\ \E q \in DOMAIN requests : q > r /\ commits[q] = 1

\* the fetchData invocations made by a debounce timer
TimerRequests == {r \in DOMAIN requests : requests[r].source = "timer"}

\* C6: fetchDataDebounced called N >= 1 times, each call within the delay of
\* the one before (and no cancel() since): no request starts before the delay
\* has passed since the last call, at most one starts, it carries the last
\* call's params, and once no timer is pending exactly one has started.
C6_DebounceCollapse ==
  (timerCount >= 1 /\ rapid /\ debounceTimeout # 0)
  => /\ Cardinality(TimerRequests) <= 1
     /\ \A r \in TimerRequests :
          /\ requests[r].params = lastDebounced
          /\ sinceDebounced >= ssConfig.searchDebounce
     /\ (timers = {} => Cardinality(TimerRequests) = 1)

\* two rapid calls with different params have led to one request
C6_Witness ==
  /\ timerCount >= 2
  /\ rapid
  /\ debounceTimeout # 0
  /\ timers = {}
  /\ Cardinality(TimerRequests) = 1
  /\ lastDebounced.page = 2

\* the outcomes that are failures of the request itself
Failures == {"httpError", "networkError", "parseError", "hookError"}

\* C11: every fetchData call, whatever the state before it, leaves loading =
\* true, error = null and lastParams = its params before any response can
\* arrive, and the subscribers are called with exactly that state; so in every
\* state lastParams is the params of the most recent fetchData call.
C11_FetchDataSetsLoading ==
  /\ [][Len(requests') = Len(requests) + 1 =>
          LET issued == requests'[Len(requests')]
          IN /\ issued.phase = "fetch"
             /\ ssState' = [ssState EXCEPT !.loading = TRUE, !.error = NoError,
                                           !.lastParams = issued.params]
             /\ (ssListeners # {} => ssDelivered' = ssState')]_vars
  /\ [](Len(requests) > 0 => ssState.lastParams = requests[Len(requests)].params)

\* a call made from the error state of an earlier call has cleared the error
C11_Witness ==
  /\ Len(requests) = 2
  /\ requests[1].outcome = "httpError"
  /\ requests[2].pendingAtIssue = {}
  /\ requests[2].phase = "fetch"
  /\ ssState = [loading |-> TRUE, error |-> NoError, data |-> <<>>, totalRows |-> 0,
                lastParams |-> requests[2].params]
  /\ ssDelivered = ssState

\* C12: the step in which a request that was not aborted ends with a non-2xx
\* status or a network rejection leaves loading = false, error = that error
\* (for a non-2xx status: the status code and its status text), data = [] and
\* totalRows = 0, and nothing else of the state changed.
C12_FailureState ==
  [][\A r \in DOMAIN requests :
       (/\ requests[r].outcome = "pending"
        /\ ~requests[r].aborted
        /\ requests'[r].outcome \in {"httpError", "networkError"})
       => /\ ssState' = [ssState EXCEPT !.loading = FALSE, !.error = ssState'.error,
                                        !.data = <<>>, !.totalRows = 0]
          /\ ssState'.error.req = r
          /\ (requests'[r].outcome = "httpError" =>
                /\ ssState'.error.kind = "http"
                /\ ssState'.error.status \in HttpStatuses
                /\ ssState'.error.statusText = StatusText(ssState'.error.status))
          /\ (requests'[r].outcome = "networkError" =>
                ssState'.error = NetworkError(r))]_vars

\* a 404 for the second call has emptied the rows the first call had loaded
C12_Witness ==
  /\ Len(requests) = 2
  /\ requests[1].outcome = "success"
  /\ requests[2].outcome = "httpError"
  /\ ssState.error = HttpError(2, 404)
  /\ ssState.data = <<>>
  /\ ssState.totalRows = 0
  /\ ~ssState.loading

\* C13: in every state each fetchData call has made one onError call if it has
\* ended in a failure of its own (and onError is configured) and none
\* otherwise: none while it is pending, none if it succeeded, none if it ended
\* with an AbortError.
C13_OnErrorOncePerFailure ==
  \A r \in DOMAIN requests :
    onErrorCalls[r] =
      IF requests[r].outcome \in Failures /\ ssConfig.onError THEN 1 ELSE 0

\* of two overlapping calls the aborted one called nothing, the failed one onError
C13_Witness ==
  \E r, q \in DOMAIN requests :
    /\ r \in requests[q].pendingAtIssue
    /\ requests[r].outcome = "aborted"
    /\ requests[q].outcome = "networkError"
    /\ onErrorCalls[r] = 0
    /\ onErrorCalls[q] = 1

\* C14: the step in which a call commits a successful response leaves
\* error = null.
C14_SuccessClearsError ==
  [][\A r \in DOMAIN requests :
       (commits'[r] > commits[r] /\ requests'[r].outcome = "success")
       => ssState'.error = NoError]_vars

\* C15: a request that was in flight when cancel() or destroy() was called
\* never commits a response or an error.
C15_CancelledNeverCommits ==
  \A r \in DOMAIN requests : requests[r].atCancel => commits[r] = 0

\* C16: a cancel() or destroy() call made with requests in flight leaves the
\* state as it is, and loading does not turn false by a call that was already
\* in flight at a cancel().
C16_CancelLeavesState ==
  [][/\ ((\E r \in DOMAIN requests : requests'[r].atCancel /\ ~requests[r].atCancel)
         => ssState' = ssState)
     /\ \A r \in DOMAIN requests :
          (ssState.loading /\ ~ssState'.loading /\ requests'[r].phase # requests[r].phase)
          => ~requests[r].atCancel]_vars

\* C17: a call whose transformRequest or transformResponse hook threw has a
\* rejected promise, wrote no error state and called onError for nothing; a
\* call that ended with an HTTP error, a network error or an abort has a
\* fulfilled promise.
C17_HookErrorPropagates ==
  \A r \in DOMAIN requests :
    /\ requests[r].outcome = "hookError" =>
         /\ requests[r].promise = "rejected"
         /\ commits[r] = 0
         /\ onErrorCalls[r] = 0
    /\ requests[r].outcome \in {"httpError", "networkError", "aborted"} =>
         requests[r].promise = "fulfilled"

(***************************************************************************)
(* Properties of the calls on a table                                      *)
(***************************************************************************)
\* the columns declared hidden: true in the column definitions
DeclaredHidden ==
  {c \in ColumnIds : \E i \in 1..Len(Columns) : Columns[i].id = c /\ Columns[i].hidden}

\* C21: after reset(), whatever was called before, sortState is the
\* construction-time defaultSort, searchTerm is empty, page and pageSize are
\* their construction-time values, hiddenColumns is exactly the set of the
\* columns declared hidden, and the derived view is recomputed from these.
C21_ResetRestoresDefaults ==
  observed.call.op = "reset" =>
    /\ sortState = options.defaultSort
    /\ searchTerm = <<>>
    /\ (options.pagination = NoPagination) = (paginationState = NoPagination)
    /\ paginationState # NoPagination =>
         /\ paginationState.page = options.pagination.page
         /\ paginationState.pageSize = options.pagination.pageSize
    /\ hiddenColumns = DeclaredHidden
    /\ C1_PipelineView

\* reset() has brought the table back to its default sort and its second page
C21_Witness ==
  /\ observed.call.op = "reset"
  /\ sortState = [columnId |-> "name", direction |-> "desc"]
  /\ searchTerm = <<>>
  /\ paginationState # NoPagination
  /\ paginationState.page = 2
  /\ hiddenColumns = {"age"}
  /\ getAllRows = <<Row1, Row2>>
  /\ getRows = <<Row2>>

\* the columns sortBy accepts
SortableIds ==
  {c \in ColumnIds : \E i \in 1..Len(Columns) : Columns[i].id = c /\ Columns[i].sortable}

\* C22: sortBy(x) without a direction on a sortable column x sorts ascending
\* when x is not the current sort column and otherwise flips the direction
\* between asc and desc; so calls from the unsorted state yield asc, desc, asc,
\* and no such call returns the sort state to unsorted.
C22_SortToggles ==
  [][(/\ observed'.call.op = "sortBy"
      /\ observed'.call.direction = NULL
      /\ observed'.call.column \in SortableIds)
     => /\ sortState'.columnId = observed'.call.column
        /\ sortState'.direction =
             IF sortState.columnId # observed'.call.column THEN "asc"
             ELSE IF sortState.direction = "asc" THEN "desc"
             ELSE "asc"
        /\ sortState' # NoSort]_vars

\* a call without a direction has flipped an ascending sort by age to descending
C22_Witness ==
  /\ observed.call.op = "sortBy"
  /\ observed.call.column = "age"
  /\ observed.call.direction = NULL
  /\ sortState = [columnId |-> "age", direction |-> "desc"]
  /\ originalData = <<Row3, Row2, Row1>>
  /\ getAllRows = <<Row3, Row1, Row2>>

\* C23: with the default comparator, after sortBy(c, 'asc') and after
\* sortBy(c, 'desc') every row whose value in column c is null or undefined
\* comes in getAllRows() after every row whose value in c is not.
C23_NullsLast ==
  (/\ observed.call.op = "sortBy"
   /\ observed.call.direction \in SortDirections
   /\ observed.call.column \in SortableIds)
  => /\ sortState = [columnId |-> observed.call.column,
                     direction |-> observed.call.direction]
     /\ \A i, j \in 1..Len(getAllRows) :
          (/\ getAllRows[i][observed.call.column].t = "null"
           /\ getAllRows[j][observed.call.column].t # "null") => j < i

\* sortBy('name', 'desc') has put the row without a name after the two with one
C23_Witness ==
  /\ observed.call.op = "sortBy"
  /\ observed.call.column = "name"
  /\ observed.call.direction = "desc"
  /\ originalData = <<Row3, Row2, Row1>>
  /\ searchTerm = <<>>
  /\ getAllRows = <<Row1, Row2, Row3>>

\* C24: in every reachable state, after construction with or without a
\* defaultSort, after sortBy, clearSort and reset, sortState.columnId is null
\* if and only if sortState.direction is null.
C24_SortStateBothOrNeither ==
  (sortState.columnId = NULL) <=> (sortState.direction = NULL)

\* C25: with pagination enabled, search(term) leaves the page at 1 from any
\* current page, also from a page > 1 with a non-empty term, and the page slice
\* is the first page of the newly filtered (and sorted) rows.
C25_SearchResetsPage ==
  [][(observed'.call.op = "search" /\ paginationState # NoPagination)
     => /\ paginationState' # NoPagination
        /\ paginationState'.page = 1
        /\ filteredData' = ExpectedFiltered'
        /\ Len(getAllRows') = Len(filteredData')
        /\ getRows' = Slice(getAllRows', 0, paginationState'.pageSize)]_vars

\* search('2') has kept two of three rows and shows the first of their two pages
C25_Witness ==
  /\ observed.call.op = "search"
  /\ originalData = <<Row3, Row2, Row1>>
  /\ searchTerm = <<"2">>
  /\ sortState = NoSort
  /\ paginationState # NoPagination
  /\ paginationState.page = 1
  /\ paginationState.totalPages = 2
  /\ getRows = <<Row3>>

\* C26: with pagination enabled, goToPage(p) for any integer p sets the page to
\* min(max(1, p), totalPages): beyond the last page it lands on totalPages,
\* below 1 it lands on 1, and getRows() becomes the slice of the sorted view
\* for that page.
C26_GoToPageClamps ==
  [][(observed'.call.op = "goToPage" /\ paginationState # NoPagination)
     => LET p == observed'.call.page
            landed == IF p < 1 THEN 1
                      ELSE IF p > paginationState.totalPages
                           THEN paginationState.totalPages
                           ELSE p
        IN /\ paginationState' # NoPagination
           /\ paginationState'.page = landed
           /\ paginationState'.pageSize = paginationState.pageSize
           /\ getAllRows' = getAllRows
           /\ getRows' = Slice(getAllRows, (landed - 1) * paginationState.pageSize,
                               landed * paginationState.pageSize)]_vars

\* goToPage beyond the last page has landed on the last of three pages
C26_Witness ==
  /\ observed.call.op = "goToPage"
  /\ paginationState # NoPagination
  /\ observed.call.page > paginationState.totalPages
  /\ paginationState.totalPages = 3
  /\ paginationState.page = 3
  /\ getAllRows = <<Row3, Row2, Row1>>
  /\ getRows = <<Row1>>

\* C27: nextPage() increases the page by exactly 1 when hasNextPage is true and
\* otherwise leaves the whole table state unchanged and emits no event;
\* prevPage() does the same with hasPrevPage and a decrease by 1; so repeated
\* nextPage() calls reach totalPages and then stay there.
C27_NextPrevStepOrNothing ==
  /\ [][(emitQueue = <<>> /\ observed'.call.op = "nextPage")
        => IF paginationState # NoPagination /\ paginationState.hasNextPage
           THEN /\ paginationState'.page = paginationState.page + 1
                /\ paginationState'.page <= paginationState.totalPages
                /\ emitQueue' = SubscribedTo("paginate")
           ELSE /\ UNCHANGED tableVars
                /\ emitQueue' = <<>>]_vars
  /\ [][(emitQueue = <<>> /\ observed'.call.op = "prevPage")
        => IF paginationState # NoPagination /\ paginationState.hasPrevPage
           THEN /\ paginationState'.page = paginationState.page - 1
                /\ paginationState'.page >= 1
                /\ emitQueue' = SubscribedTo("paginate")
           ELSE /\ UNCHANGED tableVars
                /\ emitQueue' = <<>>]_vars

\* nextPage() on the last page: the 'paginate' listener has not been called
C27_Witness ==
  /\ observed.call.op = "nextPage"
  /\ listeners["paginate"] = <<"obs">>
  /\ paginationState # NoPagination
  /\ paginationState.totalPages = 2
  /\ paginationState.page = 2
  /\ ~paginationState.hasNextPage
  /\ emitQueue = <<>>
  /\ CalledSoFar = <<>>

\* C28: after destroy(), every later mutator call (sortBy, search, goToPage,
\* toggleColumn, reset, setData) still updates the state that getState() and
\* getRows() return, and no listener that was subscribed before destroy() is
\* invoked again. (Only destroy() removes listeners here: a listener that is
\* called while it is not subscribed is one that a destroy() has removed.)
C28_DestroyedTableStaysSilent ==
  /\ [][(emitQueue = <<>> /\ listeners = NoListeners
         /\ observed'.call.op \in {"sortBy", "search", "goToPage", "toggleColumn",
                                   "reset", "setData"})
        => /\ emitQueue' = <<>>
           /\ C1_PipelineView'
           /\ (observed'.call.op = "sortBy" =>
                 sortState'.columnId = observed'.call.column /\ sortState' # sortState)
           /\ (observed'.call.op = "toggleColumn" => hiddenColumns' # hiddenColumns)
           /\ (observed'.call.op = "goToPage" =>
                 paginationState'.page = Min(2, paginationState.totalPages))
           /\ (observed'.call.op = "reset" =>
                 searchTerm' = <<>> /\ originalData' = options.data)
           /\ (observed'.call.op = "setData" => originalData' = <<Row2>>)]_vars
  /\ [][Len(observed'.invoked) > Len(observed.invoked)
        => \E i \in 1..Len(listeners[Head(emitQueue).event]) :
             listeners[Head(emitQueue).event][i] = Head(emitQueue).fn]_vars

\* the ids asked of getRowById: one that two rows share, one of a single row,
\* one of no row
IdArgs == {<<"1">>, <<"2">>, <<"9">>}

\* C29: getRowById(id) scans originalData with getRowId(row, index); when
\* several rows of originalData produce the id, the last of them is returned;
\* an id that no row produces returns undefined.
C29_LastRowOfAnIdWins ==
  \A id \in IdArgs :
    LET producing == {i \in 1..Len(originalData) :
                       generateRowId(originalData[i], i - 1) = id}
    IN IF producing = {} THEN getRowById(id) = <<>>
       ELSE getRowById(id) =
              <<originalData[CHOOSE i \in producing : \A j \in producing : j <= i]>>

\* C30: sortBy, toggleColumn, showColumn or hideColumn with a column id that is
\* not in the columns array, and sortBy on a column with sortable === false,
\* leave the table state unchanged: sort state, hidden-column set, search term,
\* pagination and derived rows are as before the call.
C30_UnknownColumnChangesNothing ==
  [][(\/ /\ observed'.call.op \in {"sortBy", "toggleColumn", "showColumn", "hideColumn"}
         /\ observed'.call.column \notin ColumnIds
      \/ /\ observed'.call.op = "sortBy"
         /\ observed'.call.column \notin SortableIds)
     => UNCHANGED tableVars]_vars

\* C31: sorting works on a copy: no sortBy call changes the order or contents
\* of originalData or filteredData, and after clearSort() getAllRows() is again
\* the filtered rows in their originalData order.
C31_SortLeavesInputAlone ==
  /\ [][observed'.call.op = "sortBy"
        => /\ originalData' = originalData
           /\ filteredData' = filteredData]_vars
  /\ [][observed'.call.op = "clearSort"
        => /\ originalData' = originalData
           /\ filteredData' = filteredData
           /\ getAllRows' = ExpectedFiltered']_vars

\* sortBy('name', 'asc') has reordered the view and neither of the arrays under it
C31_Witness ==
  /\ observed.call.op = "sortBy"
  /\ observed.call.column = "name"
  /\ observed.call.direction = "asc"
  /\ originalData = <<Row3, Row2, Row1>>
  /\ filteredData = <<Row3, Row2, Row1>>
  /\ getAllRows = <<Row2, Row1, Row3>>

(***************************************************************************)
(* Further properties of the scroll manager                                *)
(***************************************************************************)
\* C32: for any integer scrollTop handed to handleScroll, negative or far
\* beyond totalHeight, the resulting range is a valid slice bound:
\* 0 <= startIndex <= endIndex <= rowCount.
C32_ScrollRangeValid ==
  [][(\E scrollTop \in (0 - MaxScrollTop)..MaxScrollTop : handleScroll(scrollTop))
     => /\ 0 <= vsState'.startIndex
        /\ vsState'.startIndex <= vsState'.endIndex
        /\ vsState'.endIndex <= Len(vsData')]_vars

(***************************************************************************)
(* Properties of the requests and of the selection manager                 *)
(***************************************************************************)
\* the parameters that leave with the request: the query string of a GET, the
\* JSON body of a POST
SentParams == IF rqSent.method = "POST" THEN rqSent.body ELSE rqSent.query

\* the configuration and the params ask for the key
KeyAskedFor(k) ==
  CASE k \in {"page", "pageSize"} -> rqConfig.pagination
    [] k \in {"sortBy", "sortDirection"} ->
         rqConfig.sorting /\ rqSent.params.sortBy = "set"
    [] k = "search" -> rqConfig.filtering /\ rqSent.params.search = "set"
    [] OTHER -> rqSent.params[k] # "absent"

\* C33: without a transformRequest hook the keys of the outgoing request are
\* page and pageSize iff pagination is enabled, sortBy and sortDirection iff
\* sorting is enabled and sortBy is set, search iff filtering is enabled and
\* search is non-empty, plus every extra key of the caller; and for GET (query
\* string) and POST (JSON body) alike a key whose value is undefined or null is
\* left out of the request.
C33_RequestKeys ==
  rqSent.method # "none" =>
    \A k \in ParamKeys :
      SentParams[k] =
        IF KeyAskedFor(k) /\ ReadKey(rqSent.params, k) \notin {"undefined", "null"}
        THEN rqSent.params[k]
        ELSE "absent"

\* the ids of the current rows that are selected
SelectedCurrent == rsState.selectedRows \cap rsRowIds

\* C34: in every reachable state of a RowSelectionManager, allSelected is true
\* exactly when there is at least one current row id and every current row id
\* (of the latest setRowIds) is selected, and someSelected is true exactly when
\* at least one but not all current rows are selected; also after setRowIds
\* replaces the ids with preserveSelection true, and after selectRow with an id
\* that is not a current one.
C34_SelectionFlags ==
  /\ rsState.allSelected = (rsRowIds # {} /\ rsRowIds \subseteq rsState.selectedRows)
  /\ rsState.someSelected = (SelectedCurrent # {} /\ SelectedCurrent # rsRowIds)

(***************************************************************************)
(* Further properties of the table                                         *)
(***************************************************************************)
\* C35: originalData changes only through setData: sortBy, clearSort, search,
\* goToPage, nextPage, prevPage, setPageSize, toggleColumn, showColumn,
\* hideColumn and reset leave originalData as the most recent setData call (or
\* the construction) gave it.
C35_OnlySetDataChangesData ==
  [][observed'.call.op # "setData" => originalData' = originalData]_vars

(***************************************************************************)
(* Further properties of the fetch manager                                 *)
(***************************************************************************)
\* C36: fetchData does not clear a pending debounce timer: with
\* fetchDataDebounced(P) pending and fetchData(Q) called within the window, the
\* timer still issues fetchData(P), which supersedes Q (aborting it if it is in
\* flight), and once all requests have settled the state and lastParams are
\* P's, not Q's. (Every direct call here is made while the timer is pending.)
C36_TimerOvertakesDirectCall ==
  /\ [][(/\ Len(requests') = Len(requests) + 1
         /\ requests'[Len(requests')].source = "direct")
        => /\ timers' = timers
           /\ debounceTimeout' = debounceTimeout]_vars
  /\ [](\A p \in TimerRequests : \A q \in 1..(p - 1) :
          (requests[q].source = "direct" /\ q \in requests[p].pendingAtIssue)
            => requests[q].aborted)
  /\ []((/\ AllSettled
         /\ timers = {}
         /\ Len(requests) >= 2
         /\ requests[Len(requests)].source = "timer")
        => StateReflects(Len(requests)))

\* C37: with finitely many fetchData calls, no cancel() and no destroy(), and
\* every request answered, eventually loading is false and stays false.
C37_ReturnsToIdle == <>[](~ssState.loading)

\* three overlapping calls have all settled, the first of them aborted
C37_Witness ==
  /\ Len(requests) = MaxCalls
  /\ AllSettled
  /\ requests[1].outcome = "aborted"
  /\ requests[2].outcome = "success"
  /\ requests[3].outcome = "networkError"
  /\ ~ssState.loading

\* C38: in every reachable state of the manager, loading = true implies that
\* error is null, whatever the interleaving of calls, answers, failures,
\* aborts, cancel() and destroy().
C38_LoadingHasNoError == ssState.loading => ssState.error = NoError

\* a third call is loading after the second one failed
C38_Witness ==
  /\ Len(requests) = 3
  /\ requests[1].outcome = "aborted"
  /\ requests[2].outcome = "networkError"
  /\ requests[3].phase = "json"
  /\ ssState.loading
  /\ ssState.error = NoError

\* C39: with pagination enabled, setPageSize(size) with size <= 0 leaves a
\* valid pagination descriptor: totalPages is a finite integer >= 1 and
\* 0 <= startIndex <= endIndex <= totalRows, so that getRows() is that slice of
\* the sorted view and nextPage() cannot advance the page without bound.
C39_NonPositivePageSizeValid ==
  (paginationState # NoPagination /\ paginationState.pageSize <= 0)
    => /\ paginationState.totalPages \notin {NaN, Infinity}
       /\ paginationState.totalPages >= 1
       /\ paginationState.startIndex # NaN
       /\ paginationState.endIndex # NaN
       /\ 0 <= paginationState.startIndex
       /\ paginationState.startIndex <= paginationState.endIndex
       /\ paginationState.endIndex <= paginationState.totalRows
       /\ paginationState.page # NaN
       /\ paginationState.page <= paginationState.totalPages
       /\ getRows = SubSeq(getAllRows, paginationState.startIndex + 1,
                                       paginationState.endIndex)

\* the largest number of rows a viewport of the manager's config can show
WindowSize ==
  CeilQuot(vsConfig.containerHeight, vsConfig.rowHeight) + 2 * vsConfig.overscan

\* C40: for any backing array and any scrollTop, endIndex - startIndex never
\* exceeds visibleRows + 2 * overscan and getVisibleRows() returns at most
\* ceil(containerHeight / rowHeight) + 2 * overscan rows, however many rows
\* the array has.
C40_SliceBounded ==
  /\ vsState.endIndex - vsState.startIndex <= vsState.visibleRows + 2 * vsConfig.overscan
  /\ vsState.visibleRows = CeilQuot(vsConfig.containerHeight, vsConfig.rowHeight)
  /\ Len(getVisibleRows) <= WindowSize

\* a full window in the middle of the longest array: rows before it and after it
C40_Witness ==
  /\ Len(vsData) = MaxVsRows
  /\ vsState.startIndex > 0
  /\ vsState.endIndex < Len(vsData)
  /\ Len(getVisibleRows) = WindowSize
  /\ WindowSize = 2

====
